---------------------------- MODULE Spec2Model ----------------------------
(***************************************************************************)
(* A model of the project-management backend: the relational store kept   *)
(* by utils/db_helper.py (DatabaseHelper) and the request handlers of     *)
(* app.py that read and write it.  Every table is a function from the     *)
(* row's id to the row; every handler is one action that carries out the  *)
(* whole request, the store calls it makes included, and leaves the       *)
(* response in resp.                                                       *)
(***************************************************************************)
EXTENDS Integers, FiniteSets, Sequences, Bags, TLC

VARIABLES
    users,              \* table users: id -> row
    session,            \* browser -> Flask session cookie (absent: not logged in)
    projects,           \* table projects: id -> row
    milestones,         \* table milestones: id -> row
    tasks,              \* table tasks: id -> row
    project_members,    \* table project_members: a bag of rows
    project_visibility, \* table project_visibility: set of <<project_id, user_id>>
    documents,          \* table documents: id -> row
    daily_reports,      \* table daily_reports: id -> row
    messages,           \* table messages: set of rows
    notifications,      \* table notifications: id -> row
    resp,               \* the response to the last request
    conn                \* connection -> the store call running on it

store == <<users, projects, milestones, tasks, project_members,
           project_visibility, documents, daily_reports, messages,
           notifications>>
vars == <<users, session, projects, milestones, tasks, project_members,
          project_visibility, documents, daily_reports, messages,
          notifications, resp, conn>>

(***************************************************************************)
(* Values.                                                                 *)
(***************************************************************************)
\* SQL NULL and Python None; ids are AUTO_INCREMENT keys, which start at 1.
NULL == 0

Roles == {"admin", "manager", "member"}
ProjectStatus == {"planning", "active", "completed", "on_hold"}
TaskStatus == {"pending", "in_progress", "completed"}

\* CURDATE(): dates are day numbers.
CURDATE == 10

\* bcrypt.hashpw: the stored value is not the password.
hash_password(password) == <<"bcrypt", password>>

verify_password(password, hashed) ==
    IF hashed[1] = "bcrypt" THEN hashed = hash_password(password)
    ELSE hashed = <<"sha256", password>>

\* lastrowid of an AUTO_INCREMENT table holding the rows of `table`.
lastrowid(table) ==
    IF DOMAIN table = {} THEN 1
    ELSE 1 + CHOOSE i \in DOMAIN table : \A j \in DOMAIN table : j <= i

\* A Python dict read with a default: data.get(key, default).
dict_get(data, key, default) ==
    IF key \in DOMAIN data THEN data[key] ELSE default

(***************************************************************************)
(* The response of a handler: which handler ran, for which browser, on    *)
(* which id, what it answered, and for a listing the ids it rendered.     *)
(***************************************************************************)
Response(op, b, id, result, listed) ==
    [op |-> op, actor |-> b, target |-> id, result |-> result, listed |-> listed]

\* A request that was turned away: redirected to the login page, flashed
\* 'Access denied', or flashed 'not found'.
Refused(r) == r.result \in {"login", "denied", "not_found"}

(***************************************************************************)
(* project_members: UNIQUE KEY unique_project_user (project_id, user_id). *)
(***************************************************************************)
member_row(project_id, user_id, role) ==
    [project_id |-> project_id, user_id |-> user_id, role |-> role]

\* The rows of table pm for (project_id, user_id), counted.
rows_of(pm, project_id, user_id) ==
    CopiesIn(member_row(project_id, user_id, "member"), pm)
        + CopiesIn(member_row(project_id, user_id, "manager"), pm)

\* The unique key refuses an INSERT when a row for the pair is stored.
unique_project_user(pm, project_id, user_id) ==
    rows_of(pm, project_id, user_id) = 0

\* Table pm cut down to the rows in `kept`.
only_rows(pm, kept) == [r \in kept |-> pm[r]]


(***************************************************************************)
(* The demo data of insert_sample_data: organization 1 with an admin, a   *)
(* manager and a member, two projects, one milestone, three tasks and the *)
(* only project_members row of kind manager the code ever writes.  The    *)
(* other rows below were added through the handlers: a second manager     *)
(* (new_user), a second organization with its admin (register) and its    *)
(* project (new_project), the assigned managers (edit_project) and the    *)
(* visibility 'specific' of project 1 (project_visibility).  Dates are    *)
(* day numbers.                                                            *)
(***************************************************************************)
user_row(org, name, role) ==
    [organization_id |-> org, full_name |-> name, email |-> name,
     password |-> hash_password(name), phone |-> "", role |-> role,
     is_active |-> TRUE]

DemoUsers ==
    (1 :> user_row(1, "admin@demo.com", "admin")) @@
    (2 :> user_row(1, "manager@demo.com", "manager")) @@
    (3 :> user_row(1, "member@demo.com", "member")) @@
    (4 :> user_row(1, "lead@demo.com", "manager")) @@
    (5 :> user_row(2, "owner@other.org", "admin"))

project_row(org, name, status, visibility, dates, created_by, manager) ==
    [organization_id |-> org, name |-> name, description |-> "",
     status |-> status, visibility |-> visibility,
     start_date |-> dates[1], end_date |-> dates[2],
     created_by |-> created_by, assigned_manager_id |-> manager]

DemoProjects ==
    (1 :> project_row(1, "E-Commerce Platform", "active", "specific",
                      <<1, 20>>, 1, 2)) @@
    (2 :> project_row(1, "Mobile App Development", "planning", "all",
                      <<5, 30>>, 2, 4)) @@
    (3 :> project_row(2, "Other", "active", "all", <<NULL, NULL>>, 5, NULL))

DemoMilestones ==
    (1 :> [project_id |-> 1, name |-> "Design Phase", created_by |-> 1])

task_row(project, milestone, title, status, priority, assigned_to, due, by) ==
    [project_id |-> project, milestone_id |-> milestone, title |-> title,
     description |-> "", status |-> status, priority |-> priority,
     assigned_to |-> assigned_to, due_date |-> due,
     completion_date |-> NULL, created_by |-> by]

DemoTasks ==
    (1 :> task_row(1, 1, "Create wireframes", "in_progress", "high", 2, 12, 1)) @@
    (2 :> task_row(1, 1, "Design homepage", "pending", "medium", 3, 15, 1)) @@
    (3 :> task_row(1, NULL, "Setup development environment", "completed",
                   "low", 2, 8, 1))

DemoMembers ==
    SetToBag({member_row(1, 2, "manager"), member_row(1, 3, "member")})

\* The cookie login() writes for user row u with id uid.
cookie(uid, u) ==
    [user_id |-> uid, user_role |-> u.role, organization_id |-> u.organization_id]

NoResponse == Response("none", NULL, NULL, "none", {})

(***************************************************************************)
(* The decorators of app.py.                                               *)
(***************************************************************************)
\* login_required: 'user_id' in session.
login_required(b) == b \in DOMAIN session

\* The stored role of the browser's user (get_user_by_id), "" for no row.
stored_role(b) ==
    IF session[b].user_id \in DOMAIN users
    THEN users[session[b].user_id].role ELSE ""

\* admin_required: the stored role is admin or manager.
admin_role_ok(b) == stored_role(b) \in {"admin", "manager"}

\* A faulty admin_only_required that trusts the role kept in the cookie.
admin_only_role_ok_by_cookie(b) == session[b].user_role = "admin"

\* admin_only_required: the stored role is admin.
admin_only_role_ok(b) == stored_role(b) = "admin"

\* What admin_required answers before the handler runs ("pass": go on).
admin_required(b) ==
    IF ~login_required(b) THEN "login"
    ELSE IF ~admin_role_ok(b) THEN "denied" ELSE "pass"

\* What admin_only_required answers before the handler runs.
admin_only_required(b) ==
    IF ~login_required(b) THEN "login"
    ELSE IF ~admin_only_role_ok(b) THEN "denied" ELSE "pass"

(***************************************************************************)
(* Projects: DatabaseHelper.                                               *)
(***************************************************************************)
\* The ids of the projects of an organization.
get_organization_projects(org_id) ==
    {p \in DOMAIN projects : projects[p].organization_id = org_id}

get_projects_with_manager_info(org_id) == get_organization_projects(org_id)

get_manager_assigned_projects(manager_id, org_id) ==
    {p \in DOMAIN projects :
        /\ projects[p].organization_id = org_id
        /\ projects[p].assigned_manager_id = manager_id}

\* Admins and managers (by stored role) get every project of org_id; a
\* member gets the projects joined to one of their project_members rows.
get_user_visible_projects(user_id, org_id) ==
    IF user_id \notin DOMAIN users THEN {}
    ELSE IF users[user_id].role \in {"admin", "manager"}
         THEN get_organization_projects(org_id)
    ELSE {p \in DOMAIN projects :
            /\ projects[p].organization_id = org_id
            /\ rows_of(project_members, p, user_id) > 0}

\* DELETE FROM project_members WHERE project_id = .. AND role = 'member'.
delete_member_rows(pm, project_id) ==
    only_rows(pm, {r \in DOMAIN pm :
                    ~(r.project_id = project_id /\ r.role = "member")})

\* The rows that DELETE removes (cursor.rowcount after it).
count_member_rows(pm, project_id) ==
    BagCardinality(pm) - BagCardinality(delete_member_rows(pm, project_id))

_auto_unassign_completed_project_members(pm, project_id) ==
    delete_member_rows(pm, project_id)

\* The UPDATE of update_project raises on a status outside the ENUM and on
\* an assigned_manager_id that references no user.
update_project_raises(data) ==
    \/ data.status \notin ProjectStatus
    \/ /\ data.assigned_manager_id # NULL
       /\ data.assigned_manager_id \notin DOMAIN users

updated_project_row(row, data) ==
    [row EXCEPT !.name = data.name, !.description = data.description,
                !.start_date = data.start_date, !.end_date = data.end_date,
                !.status = data.status,
                !.assigned_manager_id = data.assigned_manager_id]

\* A faulty trigger that looks at the submitted status only.
status_is_completed(current_status, data) == data.status = "completed"

\* Whether update_project runs the auto-unassignment.
status_changed_to_completed(current_status, data) ==
    current_status # "completed" /\ data.status = "completed"

\* update_project: the tables after it and the value it returns, which is
\* the rowcount of the last statement the cursor ran.  removal_raises tells
\* whether a statement of _auto_unassign_completed_project_members raises
\* (a lock wait timeout, say): the helper logs the error and does not raise
\* it again, the statement that failed removed nothing and left rowcount 0,
\* and update_project goes on to commit the UPDATE.
update_project_on(project_id, data, removal_raises) ==
    LET exists == project_id \in DOMAIN projects
        current_status == IF exists THEN projects[project_id].status ELSE "None"
        new_projects ==
            IF exists
            THEN [projects EXCEPT
                    ![project_id] = updated_project_row(@, data)]
            ELSE projects
        unassign == status_changed_to_completed(current_status, data)
        new_members ==
            IF unassign /\ ~removal_raises
            THEN _auto_unassign_completed_project_members(project_members, project_id)
            ELSE project_members
        rowcount ==
            IF unassign /\ removal_raises THEN 0
            ELSE IF unassign THEN count_member_rows(project_members, project_id)
            ELSE IF new_projects # projects THEN 1 ELSE 0
    IN  IF update_project_raises(data)
        THEN [projects |-> projects, project_members |-> project_members,
              ret |-> FALSE]
        ELSE [projects |-> new_projects, project_members |-> new_members,
              ret |-> rowcount > 0]

\* update_project when every statement of the removal step runs.
update_project(project_id, data) == update_project_on(project_id, data, FALSE)

\* DELETE FROM projects with the schema's ON DELETE CASCADE / SET NULL.
db_delete_project(project_id) ==
    LET gone_milestones ==
            {m \in DOMAIN milestones : milestones[m].project_id = project_id}
        kept_tasks ==
            {t \in DOMAIN tasks : tasks[t].project_id # project_id}
        unlink(row) ==
            IF row.project_id = project_id
            THEN [row EXCEPT !.project_id = NULL] ELSE row
    IN  [projects |-> [p \in DOMAIN projects \ {project_id} |-> projects[p]],
         milestones |->
            [m \in DOMAIN milestones \ gone_milestones |-> milestones[m]],
         tasks |->
            [t \in kept_tasks |->
                IF tasks[t].milestone_id \in gone_milestones
                THEN [tasks[t] EXCEPT !.milestone_id = NULL] ELSE tasks[t]],
         project_members |->
            only_rows(project_members,
                {r \in DOMAIN project_members : r.project_id # project_id}),
         project_visibility |->
            {v \in project_visibility : v[1] # project_id},
         documents |-> [d \in DOMAIN documents |-> unlink(documents[d])],
         daily_reports |->
            [d \in DOMAIN daily_reports |-> unlink(daily_reports[d])],
         messages |-> {unlink(m) : m \in messages},
         notifications |->
            [n \in {k \in DOMAIN notifications :
                        /\ notifications[k].project_id # project_id
                        /\ notifications[k].task_id
                                \in kept_tasks \cup {NULL}} |->
                notifications[n]],
         ret |-> project_id \in DOMAIN projects]

(***************************************************************************)
(* Projects: the handlers of app.py.                                       *)
(***************************************************************************)
\* The project is stored and belongs to the organization of the cookie.
own_project(b, id) ==
    /\ id \in DOMAIN projects
    /\ projects[id].organization_id = session[b].organization_id

\* GET /projects: the listing is chosen by the role kept in the cookie.
list_projects(b) ==
    /\ resp' = IF ~login_required(b)
               THEN Response("projects", b, NULL, "login", {})
               ELSE Response("projects", b, NULL, "ok",
                    IF session[b].user_role = "admin"
                    THEN get_projects_with_manager_info(session[b].organization_id)
                    ELSE IF session[b].user_role = "manager"
                    THEN get_manager_assigned_projects(
                            session[b].user_id, session[b].organization_id)
                    ELSE get_user_visible_projects(
                            session[b].user_id, session[b].organization_id))
    /\ UNCHANGED <<store, session, conn>>

\* GET /projects/<id>
view_project(b, id) ==
    /\ resp' = Response("view_project", b, id,
                    IF ~login_required(b) THEN "login"
                    ELSE IF ~own_project(b, id) THEN "not_found"
                    ELSE "ok", {})
    /\ UNCHANGED <<store, session, conn>>

\* The dict edit_project builds from the submitted form.
edit_project_data(form) ==
    [name |-> form.name, description |-> form.description,
     start_date |-> form.start_date, end_date |-> form.end_date,
     status |-> form.status,
     assigned_manager_id |-> form.assigned_manager_id]

\* GET or POST /projects/<id>/edit, with the removal step of update_project
\* raising or not.
edit_project_on(b, id, method, form, removal_raises) ==
    LET gate == admin_required(b)
        done == update_project_on(id, edit_project_data(form), removal_raises)
        writes == gate = "pass" /\ own_project(b, id) /\ method = "POST"
    IN  /\ resp' = Response("edit_project", b, id,
                    IF gate # "pass" THEN gate
                    ELSE IF ~own_project(b, id) THEN "not_found"
                    ELSE IF method = "GET" THEN "form"
                    ELSE IF done.ret THEN "updated" ELSE "failed", {})
        /\ projects' = IF writes THEN done.projects ELSE projects
        /\ project_members' =
                IF writes THEN done.project_members ELSE project_members
        /\ UNCHANGED <<users, session, conn, milestones, tasks, project_visibility,
                       documents, daily_reports, messages, notifications>>

\* GET or POST /projects/<id>/edit
edit_project(b, id, method, form) == edit_project_on(b, id, method, form, FALSE)

\* POST /projects/<id>/delete
delete_project(b, id) ==
    LET gate == admin_only_required(b)
        done == db_delete_project(id)
        writes == gate = "pass" /\ own_project(b, id)
    IN  /\ resp' = Response("delete_project", b, id,
                    IF gate # "pass" THEN gate
                    ELSE IF ~own_project(b, id) THEN "not_found"
                    ELSE IF done.ret THEN "deleted" ELSE "failed", {})
        /\ projects' = IF writes THEN done.projects ELSE projects
        /\ milestones' = IF writes THEN done.milestones ELSE milestones
        /\ tasks' = IF writes THEN done.tasks ELSE tasks
        /\ project_members' =
                IF writes THEN done.project_members ELSE project_members
        /\ project_visibility' =
                IF writes THEN done.project_visibility ELSE project_visibility
        /\ documents' = IF writes THEN done.documents ELSE documents
        /\ daily_reports' = IF writes THEN done.daily_reports ELSE daily_reports
        /\ messages' = IF writes THEN done.messages ELSE messages
        /\ notifications' =
                IF writes THEN done.notifications ELSE notifications
        /\ UNCHANGED <<users, session, conn>>

(***************************************************************************)
(* Tasks: DatabaseHelper.                                                  *)
(***************************************************************************)
\* validate_date_within_project: is_valid, the first component it returns.
validate_date_within_project(project_id, date_to_check) ==
    IF project_id \notin DOMAIN projects THEN FALSE
    ELSE IF date_to_check = NULL THEN TRUE
    ELSE IF projects[project_id].start_date = NULL
            \/ projects[project_id].end_date = NULL THEN TRUE
    ELSE /\ projects[project_id].start_date <= date_to_check
         /\ date_to_check <= projects[project_id].end_date

\* A faulty add_user_to_project_team that inserts without looking first,
\* into a table without the unique key.
add_user_to_project_team_unchecked(pm, project_id, user_id) ==
    pm (+) SetToBag({member_row(project_id, user_id, "member")})

\* add_user_to_project_team: SELECT the pair's row, INSERT a row of kind
\* member when there is none.  An INSERT the unique key refuses raises, and
\* the exception goes to the log only.
add_user_to_project_team(pm, project_id, user_id) ==
    IF rows_of(pm, project_id, user_id) = 0
    THEN IF unique_project_user(pm, project_id, user_id)
         THEN pm (+) SetToBag({member_row(project_id, user_id, "member")})
         ELSE pm
    ELSE pm

\* get_task_by_id: the task joined to its project and its creator.
get_task_by_id(task_id) ==
    /\ task_id \in DOMAIN tasks
    /\ tasks[task_id].project_id \in DOMAIN projects
    /\ tasks[task_id].created_by \in DOMAIN users

\* A foreign key or ENUM of table tasks refuses the values.
task_values_refused(data) ==
    \/ /\ "assigned_to" \in DOMAIN data
       /\ data.assigned_to # NULL /\ data.assigned_to \notin DOMAIN users
    \/ /\ "milestone_id" \in DOMAIN data
       /\ data.milestone_id # NULL /\ data.milestone_id \notin DOMAIN milestones
    \/ /\ "status" \in DOMAIN data /\ data.status \notin TaskStatus
    \/ /\ "priority" \in DOMAIN data
       /\ data.priority \notin {"low", "medium", "high"}

\* create_task raises: the due date is outside the project's dates (or the
\* project is not stored), or the INSERT is refused.
create_task_raises(data) ==
    \/ ~validate_date_within_project(data.project_id, data.due_date)
    \/ data.created_by \notin DOMAIN users
    \/ task_values_refused(data)

\* create_task: the tables after it and the id it returns (NULL: None).
create_task(data) ==
    LET task_id == lastrowid(tasks)
        row == task_row(data.project_id, data.milestone_id, data.title,
                        "pending", data.priority, data.assigned_to,
                        data.due_date, data.created_by)
    IN  IF create_task_raises(data)
        THEN [tasks |-> tasks, project_members |-> project_members,
              ret |-> NULL]
        ELSE [tasks |-> (task_id :> row) @@ tasks,
              project_members |->
                IF data.assigned_to # NULL
                THEN add_user_to_project_team(project_members,
                        data.project_id, data.assigned_to)
                ELSE project_members,
              ret |-> task_id]

\* The row after the UPDATE update_task builds from the keys of data.
updated_task_row(row, data) ==
    [row EXCEPT
        !.title = dict_get(data, "title", @),
        !.description = dict_get(data, "description", @),
        !.assigned_to = dict_get(data, "assigned_to", @),
        !.priority = dict_get(data, "priority", @),
        !.status = dict_get(data, "status", @),
        !.completion_date =
            IF "status" \notin DOMAIN data THEN @
            ELSE IF data.status = "completed" THEN CURDATE
            ELSE IF data.status \in {"pending", "in_progress"} THEN NULL
            ELSE @,
        !.due_date = dict_get(data, "due_date", @),
        !.milestone_id = dict_get(data, "milestone_id", @)]

\* update_task: the table after it and the value it returns.  The UPDATE
\* also sets updated_at = CURRENT_TIMESTAMP, so a stored row counts as
\* changed (rowcount 1).
update_task(task_id, data) ==
    IF DOMAIN data = {} THEN [tasks |-> tasks, ret |-> TRUE]
    ELSE IF task_values_refused(data) THEN [tasks |-> tasks, ret |-> FALSE]
    ELSE IF task_id \notin DOMAIN tasks THEN [tasks |-> tasks, ret |-> FALSE]
    ELSE [tasks |-> [tasks EXCEPT ![task_id] = updated_task_row(@, data)],
          ret |-> TRUE]

\* assign_milestone_to_user: the milestone's tasks without an assignee go
\* to user_id, and a message tells them so.
assign_milestone_to_user(milestone_id, user_id, assigned_by) ==
    IF milestone_id \notin DOMAIN milestones
    THEN [tasks |-> tasks, messages |-> messages, ret |-> FALSE]
    ELSE IF user_id \notin DOMAIN users \/ assigned_by \notin DOMAIN users
    THEN [tasks |-> tasks, messages |-> messages, ret |-> FALSE]
    ELSE [tasks |->
            [t \in DOMAIN tasks |->
                IF tasks[t].milestone_id = milestone_id
                    /\ tasks[t].assigned_to = NULL
                THEN [tasks[t] EXCEPT !.assigned_to = user_id]
                ELSE tasks[t]],
          messages |-> messages \cup
            {[sender_id |-> assigned_by, recipient_id |-> user_id,
              project_id |-> milestones[milestone_id].project_id,
              subject |-> "Milestone Assigned"]},
          ret |-> TRUE]

(***************************************************************************)
(* Tasks: the handlers of app.py.                                          *)
(***************************************************************************)
\* The dict new_task builds from the submitted form.
new_task_data(b, form) ==
    [title |-> form.title, description |-> form.description,
     project_id |-> form.project_id, assigned_to |-> form.assigned_to,
     priority |-> form.priority, due_date |-> form.due_date,
     milestone_id |-> form.milestone_id, created_by |-> session[b].user_id]

\* GET or POST /tasks/new
new_task(b, method, form) ==
    LET done == create_task(new_task_data(b, form))
        writes == login_required(b) /\ method = "POST"
    IN  /\ resp' = IF ~login_required(b)
                   THEN Response("new_task", b, NULL, "login", {})
                   ELSE IF method = "GET"
                   THEN Response("new_task", b, NULL, "form", {})
                   ELSE IF done.ret # NULL
                   THEN Response("new_task", b, done.ret, "created", {})
                   ELSE Response("new_task", b, NULL, "failed", {})
        /\ tasks' = IF writes THEN done.tasks ELSE tasks
        /\ project_members' =
                IF writes THEN done.project_members ELSE project_members
        /\ UNCHANGED <<users, session, conn, projects, milestones,
                       project_visibility, documents, daily_reports, messages,
                       notifications>>

\* The checks view_task and edit_task make before they serve the task.
task_access(b, id) ==
    IF ~login_required(b) THEN "login"
    ELSE IF ~get_task_by_id(id) THEN "not_found"
    ELSE IF projects[tasks[id].project_id].organization_id
                # session[b].organization_id THEN "denied"
    ELSE IF session[b].user_role = "member"
                /\ tasks[id].assigned_to # session[b].user_id THEN "denied"
    ELSE "pass"

\* GET /tasks/<id>
view_task(b, id) ==
    /\ resp' = Response("view_task", b, id,
                    IF task_access(b, id) # "pass" THEN task_access(b, id)
                    ELSE "ok", {})
    /\ UNCHANGED <<store, session, conn>>

\* A faulty edit_task that takes every field of the form from everybody.
edit_task_data_all_fields(user_role, form) ==
    [title |-> form.title, description |-> form.description,
     assigned_to |-> form.assigned_to, priority |-> form.priority,
     status |-> form.status, due_date |-> form.due_date,
     milestone_id |-> form.milestone_id]

\* The dict edit_task builds from the submitted form.
edit_task_data(user_role, form) ==
    IF user_role = "member" THEN [status |-> form.status]
    ELSE [title |-> form.title, description |-> form.description,
          assigned_to |-> form.assigned_to, priority |-> form.priority,
          status |-> form.status, due_date |-> form.due_date,
          milestone_id |-> form.milestone_id]

\* GET or POST /tasks/<id>/edit
edit_task(b, id, method, form) ==
    LET gate == task_access(b, id)
        done == update_task(id, edit_task_data(session[b].user_role, form))
        writes == gate = "pass" /\ method = "POST"
    IN  /\ resp' = Response("edit_task", b, id,
                    IF gate # "pass" THEN gate
                    ELSE IF method = "GET" THEN "form"
                    ELSE IF done.ret THEN "updated" ELSE "failed", {})
        /\ tasks' = IF writes THEN done.tasks ELSE tasks
        /\ UNCHANGED <<users, session, conn, projects, milestones, project_members,
                       project_visibility, documents, daily_reports, messages,
                       notifications>>

\* POST /milestones/<milestone_id>/assign/<user_id>
assign_milestone(b, milestone_id, user_id) ==
    LET gate == admin_required(b)
        found == milestone_id \in DOMAIN milestones
        own == projects[milestones[milestone_id].project_id].organization_id
                    = session[b].organization_id
        user_ok == /\ user_id \in DOMAIN users
                   /\ users[user_id].organization_id
                            = session[b].organization_id
        done == assign_milestone_to_user(milestone_id, user_id,
                                         session[b].user_id)
        writes == gate = "pass" /\ found /\ own /\ user_ok
    IN  /\ resp' = Response("assign_milestone", b, milestone_id,
                    IF gate # "pass" THEN gate
                    ELSE IF ~found THEN "not_found"
                    ELSE IF ~own THEN "denied"
                    ELSE IF ~user_ok THEN "not_found"
                    ELSE IF done.ret THEN "assigned" ELSE "failed", {})
        /\ tasks' = IF writes THEN done.tasks ELSE tasks
        /\ messages' = IF writes THEN done.messages ELSE messages
        /\ UNCHANGED <<users, session, conn, projects, milestones, project_members,
                       project_visibility, documents, daily_reports,
                       notifications>>

(***************************************************************************)
(* Users: DatabaseHelper.                                                  *)
(***************************************************************************)
\* get_user_by_id: a row is returned.
get_user_by_id(user_id) == user_id \in DOMAIN users

\* users.email is UNIQUE: another row holds the address.
email_taken(user_id, email) ==
    \E u \in DOMAIN users : u # user_id /\ users[u].email = email

\* create_user: the table after it and the id it returns (NULL: None).
\* A stored address returns None, a role outside the ENUM raises.
create_user(data) ==
    LET user_id == lastrowid(users)
        row == [organization_id |-> data.organization_id,
                full_name |-> data.full_name, email |-> data.email,
                password |-> data.password, phone |-> data.phone,
                role |-> data.role, is_active |-> TRUE]
    IN  IF email_taken(NULL, data.email) THEN [users |-> users, ret |-> NULL]
        ELSE IF data.role \notin Roles THEN [users |-> users, ret |-> NULL]
        ELSE [users |-> (user_id :> row) @@ users, ret |-> user_id]

\* The row after the UPDATE update_user builds from the keys of data.
updated_user_row(row, data) ==
    [row EXCEPT
        !.full_name = dict_get(data, "full_name", @),
        !.email = dict_get(data, "email", @),
        !.password = dict_get(data, "password", @),
        !.phone = dict_get(data, "phone", @),
        !.role = dict_get(data, "role", @),
        !.is_active = dict_get(data, "is_active", @)]

\* The UPDATE of update_user raises on an address another user holds and
\* on a role outside the ENUM.
update_user_raises(user_id, data) ==
    \/ "email" \in DOMAIN data /\ email_taken(user_id, data.email)
    \/ "role" \in DOMAIN data /\ data.role \notin Roles

\* update_user: the table after it and the value it returns, rowcount > 0.
\* A password in data is a fresh bcrypt hash, which differs from the
\* stored one.
update_user(user_id, data) ==
    IF DOMAIN data = {} THEN [users |-> users, ret |-> TRUE]
    ELSE IF update_user_raises(user_id, data)
    THEN [users |-> users, ret |-> FALSE]
    ELSE IF user_id \notin DOMAIN users THEN [users |-> users, ret |-> FALSE]
    ELSE [users |-> [users EXCEPT ![user_id] = updated_user_row(@, data)],
          ret |-> \/ "password" \in DOMAIN data
                  \/ updated_user_row(users[user_id], data) # users[user_id]]

(***************************************************************************)
(* Users: the handlers of app.py.                                          *)
(***************************************************************************)
\* The dict new_user builds from the submitted form.
new_user_data(b, form) ==
    [organization_id |-> session[b].organization_id,
     full_name |-> form.full_name, email |-> form.email,
     password |-> hash_password(form.password), phone |-> form.phone,
     role |-> form.role]

\* GET or POST /users/new
new_user(b, method, form) ==
    LET gate == admin_required(b)
        done == create_user(new_user_data(b, form))
        writes == gate = "pass" /\ method = "POST"
    IN  /\ resp' = IF gate # "pass"
                   THEN Response("new_user", b, NULL, gate, {})
                   ELSE IF method = "GET"
                   THEN Response("new_user", b, NULL, "form", {})
                   ELSE IF done.ret # NULL
                   THEN Response("new_user", b, done.ret, "created", {})
                   ELSE Response("new_user", b, NULL, "failed", {})
        /\ users' = IF writes THEN done.users ELSE users
        /\ UNCHANGED <<session, conn, projects, milestones, tasks, project_members,
                       project_visibility, documents, daily_reports, messages,
                       notifications>>

\* A faulty edit_user that takes every user who passed admin_required for
\* an admin.
current_user_role_unchecked(b) == "admin"

\* current_user['role'] of edit_user: the stored role of the browser's user.
current_user_role(b) == users[session[b].user_id].role

\* The checks edit_user makes on every request, GET or POST.
edit_user_guard(b, id) ==
    IF ~get_user_by_id(id) THEN "not_found"
    ELSE IF users[id].organization_id # session[b].organization_id
    THEN "not_found"
    ELSE IF id = session[b].user_id /\ users[id].role = "admin" THEN "denied"
    ELSE IF current_user_role(b) = "manager" /\ users[id].role = "admin"
    THEN "denied"
    ELSE IF current_user_role(b) = "manager" /\ users[id].role = "manager"
                /\ id # session[b].user_id THEN "denied"
    ELSE "pass"

\* The checks edit_user makes on the role a POST asks for.
edit_user_role_guard(b, id, requested_role) ==
    IF current_user_role(b) # "manager" THEN "pass"
    ELSE IF requested_role = "admin" THEN "denied"
    ELSE IF users[id].role = "manager" /\ id # session[b].user_id
    THEN "denied"
    ELSE IF requested_role = "manager" /\ users[id].role # "manager"
    THEN "denied"
    ELSE "pass"

\* The dict edit_user builds from the submitted form; an empty password
\* field leaves the password out.
edit_user_data(form) ==
    IF form.password = ""
    THEN [full_name |-> form.full_name, email |-> form.email,
          phone |-> form.phone, role |-> form.role,
          is_active |-> form.is_active]
    ELSE [full_name |-> form.full_name, email |-> form.email,
          phone |-> form.phone, role |-> form.role,
          is_active |-> form.is_active,
          password |-> hash_password(form.password)]

\* GET or POST /users/<id>/edit
edit_user(b, id, method, form) ==
    LET gate == admin_required(b)
        guard == IF gate # "pass" THEN gate ELSE edit_user_guard(b, id)
        role_guard ==
            IF guard # "pass" THEN guard
            ELSE IF method = "GET" THEN "form"
            ELSE edit_user_role_guard(b, id, form.role)
        done == update_user(id, edit_user_data(form))
        writes == role_guard = "pass"
    IN  /\ resp' = Response("edit_user", b, id,
                    IF role_guard # "pass" THEN role_guard
                    ELSE IF done.ret THEN "updated" ELSE "failed", {})
        /\ users' = IF writes THEN done.users ELSE users
        /\ UNCHANGED <<session, conn, projects, milestones, tasks, project_members,
                       project_visibility, documents, daily_reports, messages,
                       notifications>>

(***************************************************************************)
(* Documents and daily reports: DatabaseHelper.                            *)
(***************************************************************************)
\* Rows written by documents_upload and new_daily_report, and the message
\* of the demo data.  on_disk tells whether the uploaded file is in the
\* documents folder.
document_row(org, project, uploaded_by) ==
    [organization_id |-> org, project_id |-> project,
     uploaded_by |-> uploaded_by, filename |-> "stored.pdf",
     is_active |-> TRUE, download_count |-> 0, on_disk |-> TRUE]

DemoDocuments ==
    (1 :> document_row(1, 1, 3)) @@ (2 :> document_row(2, 3, 5))

DemoReports ==
    (1 :> [user_id |-> 3, organization_id |-> 1, project_id |-> 1,
           visible_to_manager |-> TRUE, visible_to_admin |-> FALSE]) @@
    (2 :> [user_id |-> 5, organization_id |-> 2, project_id |-> 3,
           visible_to_manager |-> FALSE, visible_to_admin |-> TRUE])

DemoMessages ==
    {[sender_id |-> 1, recipient_id |-> 2, project_id |-> 1,
      subject |-> "Project Update"]}

\* get_document_by_id: a row is returned (WHERE d.is_active = 1).
get_document_by_id(doc_id) ==
    /\ doc_id \in DOMAIN documents
    /\ documents[doc_id].uploaded_by \in DOMAIN users
    /\ documents[doc_id].is_active

\* is_user_assigned_to_project reads table project_assignments, which
\* create_tables never creates: the query raises and the answer is False.
is_user_assigned_to_project(user_id, project_id) == FALSE

\* The manager branch shared by can_user_view_document and
\* can_user_manage_document.
manages_document_project(user_id, document) ==
    /\ document.project_id \in DOMAIN projects
    /\ projects[document.project_id].assigned_manager_id = user_id

can_user_view_document(user_id, org_id, role, document) ==
    IF document.organization_id # org_id \/ ~document.is_active THEN FALSE
    ELSE IF role = "admin" THEN TRUE
    ELSE IF document.uploaded_by = user_id THEN TRUE
    ELSE IF document.project_id # NULL /\ role = "manager"
                /\ manages_document_project(user_id, document) THEN TRUE
    ELSE IF document.project_id # NULL /\ role = "member"
    THEN is_user_assigned_to_project(user_id, document.project_id)
    ELSE document.project_id = NULL

can_user_manage_document(user_id, org_id, role, document) ==
    IF document.organization_id # org_id \/ ~document.is_active THEN FALSE
    ELSE IF role = "admin" THEN TRUE
    ELSE IF document.uploaded_by = user_id THEN TRUE
    ELSE /\ document.project_id # NULL /\ role = "manager"
         /\ manages_document_project(user_id, document)

\* delete_document: UPDATE documents SET is_active = 0.
delete_document(doc_id) ==
    IF doc_id \notin DOMAIN documents
    THEN [documents |-> documents, ret |-> FALSE]
    ELSE [documents |-> [documents EXCEPT ![doc_id].is_active = FALSE],
          ret |-> documents[doc_id].is_active]

\* increment_download_count: download_count + 1 WHERE is_active = 1.
increment_download_count(doc_id) ==
    IF doc_id \in DOMAIN documents /\ documents[doc_id].is_active
    THEN [documents EXCEPT ![doc_id].download_count = @ + 1]
    ELSE documents

\* A project_members row joins the report's project to the user.
report_team_member(report, user_id) ==
    \E r \in DOMAIN project_members :
        r.project_id = report.project_id /\ r.user_id = user_id

\* get_daily_report_with_modules: a report is returned.
get_daily_report_with_modules(report_id, user_id, org_id, user_role) ==
    IF report_id \notin DOMAIN daily_reports THEN FALSE
    ELSE LET report == daily_reports[report_id]
         IN  IF report.organization_id # org_id
                    \/ report.user_id \notin DOMAIN users THEN FALSE
             ELSE IF user_role = "member" /\ report.user_id # user_id
             THEN FALSE
             ELSE IF user_role = "manager" /\ ~report.visible_to_manager
                        /\ report.user_id # user_id THEN FALSE
             ELSE IF user_role = "admin" /\ ~report.visible_to_admin
                        /\ ~report.visible_to_manager
                        /\ report.user_id # user_id THEN FALSE
             ELSE TRUE

\* get_daily_report_by_id: a report is returned.
get_daily_report_by_id(report_id, user_id, org_id, user_role) ==
    IF report_id \notin DOMAIN daily_reports THEN FALSE
    ELSE LET report == daily_reports[report_id]
             p == report.project_id
         IN  IF report.organization_id # org_id
                    \/ report.user_id \notin DOMAIN users THEN FALSE
             ELSE IF report.user_id = user_id THEN TRUE
             ELSE IF user_role = "admin" THEN report.visible_to_admin
             ELSE IF user_role = "manager"
             THEN \/ p = NULL
                  \/ p \in DOMAIN projects
                        /\ projects[p].assigned_manager_id = user_id
                  \/ report_team_member(report, user_id)
             ELSE IF user_role = "member"
             THEN /\ report.visible_to_manager
                  /\ p = NULL \/ report_team_member(report, user_id)
             ELSE FALSE

(***************************************************************************)
(* Documents and daily reports: the handlers of app.py.                    *)
(***************************************************************************)
\* GET /documents/<doc_id>/download.  The call of can_user_view_document
\* is commented out in the source.
documents_download(b, doc_id) ==
    LET found == get_document_by_id(doc_id)
        sends == /\ login_required(b) /\ found
                 /\ documents[doc_id].filename # ""
                 /\ documents[doc_id].on_disk
    IN  /\ resp' = Response("documents_download", b, doc_id,
                    IF ~login_required(b) THEN "login"
                    ELSE IF ~found THEN "not_found"
                    ELSE IF documents[doc_id].filename = "" THEN "no_file"
                    ELSE IF ~documents[doc_id].on_disk THEN "no_file"
                    ELSE "ok", {})
        /\ documents' = IF sends THEN increment_download_count(doc_id)
                        ELSE documents
        /\ UNCHANGED <<users, session, conn, projects, milestones, tasks,
                       project_members, project_visibility, daily_reports,
                       messages, notifications>>

\* POST /documents/<doc_id>/delete: the row is kept with is_active = 0 and
\* the file is removed.
documents_delete(b, doc_id) ==
    LET found == get_document_by_id(doc_id)
        allowed == can_user_manage_document(session[b].user_id,
                        session[b].organization_id, session[b].user_role,
                        documents[doc_id])
        done == delete_document(doc_id)
        writes == login_required(b) /\ found /\ allowed /\ done.ret
    IN  /\ resp' = Response("documents_delete", b, doc_id,
                    IF ~login_required(b) THEN "login"
                    ELSE IF ~found THEN "not_found"
                    ELSE IF ~allowed THEN "denied"
                    ELSE IF done.ret THEN "deleted" ELSE "failed", {})
        /\ documents' =
                IF writes
                THEN [done.documents EXCEPT ![doc_id].on_disk = FALSE]
                ELSE documents
        /\ UNCHANGED <<users, session, conn, projects, milestones, tasks,
                       project_members, project_visibility, daily_reports,
                       messages, notifications>>

\* GET /daily-reports/<report_id>
view_daily_report(b, report_id) ==
    /\ resp' = Response("view_daily_report", b, report_id,
                    IF ~login_required(b) THEN "login"
                    ELSE IF get_daily_report_with_modules(report_id,
                                session[b].user_id, session[b].organization_id,
                                session[b].user_role) THEN "ok"
                    ELSE IF get_daily_report_by_id(report_id,
                                session[b].user_id, session[b].organization_id,
                                session[b].user_role) THEN "ok"
                    ELSE "not_found", {})
    /\ UNCHANGED <<store, session, conn>>

\* can_user_view_document asked for the browser's user and a stored
\* document, with the identity kept in the session (the way
\* documents_delete calls can_user_manage_document).
document_view_permission(b, doc_id) ==
    /\ resp' = Response("can_user_view_document", b, doc_id,
                    IF ~login_required(b) THEN "login"
                    ELSE IF doc_id \notin DOMAIN documents THEN "not_found"
                    ELSE IF can_user_view_document(session[b].user_id,
                                session[b].organization_id,
                                session[b].user_role, documents[doc_id])
                    THEN "allowed" ELSE "refused", {})
    /\ UNCHANGED <<store, session, conn>>

\* get_daily_reports_for_user_role: the ids of the reports it returns.
get_daily_reports_for_user_role(user_id, org_id, user_role) ==
    {d \in DOMAIN daily_reports :
        LET report == daily_reports[d]
            p == report.project_id
        IN  /\ report.organization_id = org_id
            /\ report.user_id \in DOMAIN users
            /\ IF user_role = "admin" THEN report.visible_to_admin
               ELSE IF user_role = "manager"
               THEN \/ p = NULL
                    \/ p \in DOMAIN projects
                          /\ projects[p].assigned_manager_id = user_id
                    \/ report_team_member(report, user_id)
               ELSE \/ report.user_id = user_id
                    \/ /\ report.visible_to_manager /\ p # NULL
                       /\ report_team_member(report, user_id)}

\* GET /daily-reports
daily_reports_route(b) ==
    /\ resp' = IF ~login_required(b)
               THEN Response("daily_reports", b, NULL, "login", {})
               ELSE Response("daily_reports", b, NULL, "ok",
                        get_daily_reports_for_user_role(session[b].user_id,
                            session[b].organization_id, session[b].user_role))
    /\ UNCHANGED <<store, session, conn>>

(***************************************************************************)
(* Project teams: DatabaseHelper.                                          *)
(***************************************************************************)
\* The ids in a submitted list (request.form.getlist).
ids_of(member_ids) == {member_ids[i] : i \in DOMAIN member_ids}

\* assign_team_members_to_project: DELETE the member rows of the project,
\* then for every submitted id INSERT .. VALUES (project, id, 'member') ON
\* DUPLICATE KEY UPDATE role = 'member'.  An INSERT for an id that is no
\* user raises (foreign key), is logged and skipped.  A pair that still has
\* a row after the DELETE has one of kind manager: the INSERT meets the
\* unique key and rewrites that row's role.
assign_team_members_to_project(project_id, member_ids) ==
    LET cleared == delete_member_rows(project_members, project_id)
        inserted == {m \in ids_of(member_ids) :
                        m \in DOMAIN users /\ project_id \in DOMAIN projects}
        kept == only_rows(cleared,
                    {r \in DOMAIN cleared :
                        ~(r.project_id = project_id /\ r.user_id \in inserted)})
    IN  [project_members |->
            kept (+) SetToBag({member_row(project_id, m, "member") :
                                    m \in inserted}),
         ret |-> TRUE]

\* remove_team_member_from_project: DELETE the member row of the pair; the
\* answer is rowcount > 0.
remove_team_member_from_project(project_id, member_id) ==
    LET row == member_row(project_id, member_id, "member")
    IN  [project_members |->
            only_rows(project_members, DOMAIN project_members \ {row}),
         ret |-> BagIn(row, project_members)]

\* create_message: the table after INSERT INTO messages.  With fails the
\* INSERT (or get_connection) raises inside create_message, which rolls
\* back and returns None.
create_message(data, fails) ==
    IF fails THEN messages
    ELSE messages \cup
            {[sender_id |-> data.sender_id, recipient_id |-> data.recipient_id,
              project_id |-> data.project_id, subject |-> data.subject]}

(***************************************************************************)
(* Project teams: the handlers of app.py.                                  *)
(***************************************************************************)
\* A variant of the handlers' except clause that lets a failed message
\* fail the request.
notification_outcome_propagated(result, message_fails) ==
    IF message_fails THEN "failed" ELSE result

\* try: .. db.create_message(..) except Exception: logger.error(..): what
\* the request answers once the membership change is committed.
notification_outcome(result, message_fails) == result

\* The message to the assigned manager of the project, written after the
\* membership change was committed.
notify_manager(b, project_id, subject, message_fails) ==
    IF projects[project_id].assigned_manager_id = NULL THEN messages
    ELSE create_message(
            [sender_id |-> session[b].user_id,
             recipient_id |-> projects[project_id].assigned_manager_id,
             project_id |-> project_id, subject |-> subject], message_fails)

\* GET or POST /projects/<id>/team-members
manage_project_team_members(b, id, method, member_ids, message_fails) ==
    LET gate == admin_only_required(b)
        done == assign_team_members_to_project(id, member_ids)
        writes == gate = "pass" /\ own_project(b, id) /\ method = "POST"
        notifies == writes /\ done.ret
    IN  /\ resp' = Response("manage_project_team_members", b, id,
                    IF gate # "pass" THEN gate
                    ELSE IF ~own_project(b, id) THEN "not_found"
                    ELSE IF method = "GET" THEN "form"
                    ELSE IF ~done.ret THEN "failed"
                    ELSE IF projects[id].assigned_manager_id = NULL
                    THEN IF Len(member_ids) > 0 THEN "assigned" ELSE "cleared"
                    ELSE notification_outcome(
                            IF Len(member_ids) > 0 THEN "assigned" ELSE "cleared",
                            message_fails), {})
        /\ project_members' =
                IF writes THEN done.project_members ELSE project_members
        /\ messages' =
                IF notifies
                THEN notify_manager(b, id,
                        IF Len(member_ids) > 0 THEN "Team Members Assigned"
                        ELSE "Team Member Changes", message_fails)
                ELSE messages
        /\ UNCHANGED <<users, session, conn, projects, milestones, tasks,
                       project_visibility, documents, daily_reports,
                       notifications>>

\* POST /projects/<project_id>/remove-member/<member_id>
remove_project_team_member(b, project_id, member_id, message_fails) ==
    LET gate == admin_only_required(b)
        done == remove_team_member_from_project(project_id, member_id)
        writes == /\ gate = "pass" /\ own_project(b, project_id)
                  /\ get_user_by_id(member_id)
        notifies == writes /\ done.ret
    IN  /\ resp' = Response("remove_project_team_member", b, project_id,
                    IF gate # "pass" THEN gate
                    ELSE IF ~own_project(b, project_id) THEN "not_found"
                    ELSE IF ~get_user_by_id(member_id) THEN "no_member"
                    ELSE IF ~done.ret THEN "failed"
                    ELSE IF projects[project_id].assigned_manager_id = NULL
                    THEN "removed"
                    ELSE notification_outcome("removed", message_fails), {})
        /\ project_members' =
                IF writes THEN done.project_members ELSE project_members
        /\ messages' =
                IF notifies
                THEN notify_manager(b, project_id, "Team Member Removed",
                                    message_fails)
                ELSE messages
        /\ UNCHANGED <<users, session, conn, projects, milestones, tasks,
                       project_visibility, documents, daily_reports,
                       notifications>>

(***************************************************************************)
(* Project visibility: DatabaseHelper and the handler of app.py.           *)
(***************************************************************************)
\* A statement of update_project_visibility raises: a visibility outside
\* the ENUM, an id that is no user (foreign key), or an id submitted twice
\* (unique key of project_visibility).
update_project_visibility_raises(data) ==
    \/ data.visibility \notin {"all", "specific"}
    \/ /\ data.visibility = "specific"
       /\ \/ \E i \in DOMAIN data.member_ids :
                data.member_ids[i] \notin DOMAIN users
          \/ \E i, j \in DOMAIN data.member_ids :
                i # j /\ data.member_ids[i] = data.member_ids[j]

\* update_project_visibility: UPDATE projects SET visibility, DELETE the
\* grants of the project, INSERT a grant for every submitted member.
update_project_visibility(project_id, data) ==
    IF update_project_visibility_raises(data)
    THEN [projects |-> projects, project_visibility |-> project_visibility,
          ret |-> FALSE]
    ELSE [projects |->
            IF project_id \in DOMAIN projects
            THEN [projects EXCEPT ![project_id].visibility = data.visibility]
            ELSE projects,
          project_visibility |->
            {v \in project_visibility : v[1] # project_id} \cup
                (IF data.visibility = "specific"
                 THEN {<<project_id, m>> : m \in ids_of(data.member_ids)}
                 ELSE {}),
          ret |-> TRUE]

\* The dict project_visibility builds from the submitted form.
project_visibility_data(visibility, member_ids) ==
    [visibility |-> visibility,
     member_ids |-> IF visibility = "specific" THEN member_ids ELSE << >>]

\* GET or POST /projects/<id>/visibility
project_visibility_route(b, id, method, visibility, member_ids) ==
    LET gate == admin_required(b)
        done == update_project_visibility(id,
                    project_visibility_data(visibility, member_ids))
        writes == /\ gate = "pass" /\ own_project(b, id) /\ method = "POST"
                  /\ done.ret
    IN  /\ resp' = Response("project_visibility", b, id,
                    IF gate # "pass" THEN gate
                    ELSE IF ~own_project(b, id) THEN "not_found"
                    ELSE IF method = "GET" THEN "form"
                    ELSE IF done.ret THEN "updated" ELSE "failed", {})
        /\ projects' = IF writes THEN done.projects ELSE projects
        /\ project_visibility' =
                IF writes THEN done.project_visibility ELSE project_visibility
        /\ UNCHANGED <<users, session, conn, milestones, tasks, project_members,
                       documents, daily_reports, messages, notifications>>

(***************************************************************************)
(* New projects: DatabaseHelper and the handler of app.py.                 *)
(***************************************************************************)
\* create_project: the table after the INSERT and the id it returns (NULL:
\* None).  The INSERT raises on an assigned_manager_id that references no
\* user; status and visibility take the defaults of the schema.
create_project(data) ==
    IF data.assigned_manager_id # NULL
            /\ data.assigned_manager_id \notin DOMAIN users
    THEN [projects |-> projects, ret |-> NULL]
    ELSE LET project_id == lastrowid(projects)
         IN  [projects |->
                projects @@ (project_id :>
                    [organization_id |-> data.organization_id,
                     name |-> data.name, description |-> data.description,
                     status |-> "planning", visibility |-> "all",
                     start_date |-> data.start_date,
                     end_date |-> data.end_date,
                     created_by |-> data.created_by,
                     assigned_manager_id |-> data.assigned_manager_id]),
              ret |-> project_id]

\* The dict new_project builds from the submitted form and the session.
new_project_data(b, form) ==
    [name |-> form.name, description |-> form.description,
     start_date |-> form.start_date, end_date |-> form.end_date,
     organization_id |-> session[b].organization_id,
     created_by |-> session[b].user_id,
     assigned_manager_id |-> form.assigned_manager_id]

\* GET or POST /projects/new
new_project(b, method, form) ==
    LET gate == admin_required(b)
        done == create_project(new_project_data(b, form))
        writes == gate = "pass" /\ method = "POST"
    IN  /\ resp' = Response("new_project", b,
                    IF writes THEN done.ret ELSE NULL,
                    IF gate # "pass" THEN gate
                    ELSE IF method = "GET" THEN "form"
                    ELSE IF done.ret # NULL THEN "created" ELSE "failed", {})
        /\ projects' = IF writes THEN done.projects ELSE projects
        /\ UNCHANGED <<users, session, conn, milestones, tasks, project_members,
                       project_visibility, documents, daily_reports, messages,
                       notifications>>

(***************************************************************************)
(* Sessions: login, the active flag of a user, and the list of all tasks.  *)
(***************************************************************************)
\* get_user_by_email: the id of the active user with this address (NULL:
\* None).  users.email is UNIQUE.
get_user_by_email(email) ==
    IF \E u \in DOMAIN users : users[u].email = email /\ users[u].is_active
    THEN CHOOSE u \in DOMAIN users :
            users[u].email = email /\ users[u].is_active
    ELSE NULL

\* GET or POST /login: a POST with the password of an active user writes
\* the user's id, role and organization into the session.
login(b, method, email, password) ==
    LET user == get_user_by_email(email)
        welcome == /\ method = "POST"
                   /\ user # NULL
                   /\ verify_password(password, users[user].password)
    IN  /\ resp' = Response("login", b, user,
                    IF method = "GET" THEN "form"
                    ELSE IF welcome THEN "welcome" ELSE "invalid", {})
        /\ session' = IF welcome
                      THEN (b :> cookie(user, users[user])) @@ session
                      ELSE session
        /\ UNCHANGED <<store, conn>>

\* update_user_status: UPDATE users SET is_active = %s WHERE id = %s; the
\* value it returns is rowcount > 0.
update_user_status(user_id, is_active) ==
    IF user_id \notin DOMAIN users THEN [users |-> users, ret |-> FALSE]
    ELSE [users |-> [users EXCEPT ![user_id].is_active = is_active],
          ret |-> users[user_id].is_active # is_active]

\* POST /users/<id>/toggle-status
toggle_user_status(b, id) ==
    LET gate == admin_only_required(b)
        guard == IF gate # "pass" THEN gate
                 ELSE IF ~get_user_by_id(id) THEN "not_found"
                 ELSE IF users[id].organization_id
                            # session[b].organization_id THEN "not_found"
                 ELSE IF id = session[b].user_id THEN "denied"
                 ELSE "pass"
        done == update_user_status(id, ~users[id].is_active)
    IN  /\ resp' = Response("toggle_user_status", b, id,
                    IF guard # "pass" THEN guard
                    ELSE IF ~done.ret THEN "failed"
                    ELSE IF users[id].is_active THEN "deactivated"
                    ELSE "activated", {})
        /\ users' = IF guard = "pass" THEN done.users ELSE users
        /\ UNCHANGED <<session, conn, projects, milestones, tasks,
                       project_members, project_visibility, documents,
                       daily_reports, messages, notifications>>

\* get_tasks_by_creator_role: the ids of the tasks the SELECT returns for
\* this role.  creator_role "" is no filter.
get_tasks_by_creator_role(org_id, creator_role, user_id, user_role) ==
    {t \in DOMAIN tasks :
        /\ tasks[t].project_id \in DOMAIN projects
        /\ tasks[t].created_by \in DOMAIN users
        /\ projects[tasks[t].project_id].organization_id = org_id
        /\ creator_role # "" => users[tasks[t].created_by].role = creator_role
        /\ IF user_role = "admin" THEN TRUE
           ELSE IF user_role = "manager"
           THEN projects[tasks[t].project_id].assigned_manager_id = user_id
           ELSE IF user_role = "member"
           THEN \/ projects[tasks[t].project_id].visibility = "all"
                \/ /\ projects[tasks[t].project_id].visibility = "specific"
                   /\ <<tasks[t].project_id, user_id>> \in project_visibility
           ELSE TRUE}

\* GET /tasks/all
all_tasks(b, creator_role) ==
    /\ resp' =
        IF ~login_required(b)
        THEN Response("all_tasks", b, NULL, "login", {})
        ELSE IF session[b].user_role = "member"
        THEN Response("all_tasks", b, NULL, "denied", {})
        ELSE Response("all_tasks", b, NULL, "ok",
                get_tasks_by_creator_role(session[b].organization_id,
                    creator_role, session[b].user_id, session[b].user_role))
    /\ UNCHANGED <<store, session, conn>>

(***************************************************************************)
(* Due-date notifications: DatabaseHelper and the handler of app.py.       *)
(***************************************************************************)
\* The title create_due_date_notifications writes for days_until_due.
notification_title(days_until_due) ==
    IF days_until_due = 0 THEN "Task Due Today"
    ELSE IF days_until_due = 1 THEN "Task Due Tomorrow"
    ELSE "Task Due in N Days"

\* A row of table notifications; created_at is the day it was inserted.
notification_row(user_id, task_id, project_id, days_until_due, created_at) ==
    [user_id |-> user_id, task_id |-> task_id, project_id |-> project_id,
     type |-> "task_due_soon", title |-> notification_title(days_until_due),
     days_until_due |-> days_until_due, is_read |-> FALSE,
     created_at |-> created_at]

\* The table before the first run of today: the reminder of task 1 that a
\* run of the day before wrote.
DemoNotifications ==
    (1 :> notification_row(2, 1, 1, 3, CURDATE - 1))

\* days_ahead=7, the default generate_notifications runs with.
DefaultDaysAhead == 7

\* A faulty window that leaves out its last day.
within_window_exclusive(due_date, days_ahead) ==
    due_date >= CURDATE /\ due_date < CURDATE + days_ahead

\* t.due_date >= CURDATE() AND t.due_date <= DATE_ADD(CURDATE(), INTERVAL
\* days_ahead DAY).
within_window(due_date, days_ahead) ==
    due_date >= CURDATE /\ due_date <= CURDATE + days_ahead

\* The tasks the SELECT of create_due_date_notifications returns.
upcoming_tasks(org_id, days_ahead) ==
    {t \in DOMAIN tasks :
        /\ tasks[t].project_id \in DOMAIN projects
        /\ projects[tasks[t].project_id].organization_id = org_id
        /\ tasks[t].assigned_to # NULL
        /\ tasks[t].due_date # NULL
        /\ within_window(tasks[t].due_date, days_ahead)
        /\ tasks[t].status # "completed"}

\* A faulty check that never finds today's notification.
notified_never(table, user_id, task_id) == FALSE

\* SELECT id FROM notifications WHERE user_id = .. AND task_id = .. AND
\* type = 'task_due_soon' AND DATE(created_at) = CURDATE(): a row is found.
notified_today(table, user_id, task_id) ==
    \E n \in DOMAIN table :
        /\ table[n].user_id = user_id /\ table[n].task_id = task_id
        /\ table[n].type = "task_due_soon"
        /\ table[n].created_at = CURDATE

\* The rows fetched, as a list in the order of their ids.
RECURSIVE in_id_order(_)
in_id_order(ids) ==
    IF ids = {} THEN << >>
    ELSE LET first == CHOOSE i \in ids : \A j \in ids : i <= j
         IN  <<first>> \o in_id_order(ids \ {first})

\* The loop of create_due_date_notifications over the fetched tasks: the
\* table inside the transaction, and whether a statement raised.  fails_at
\* is the task whose INSERT raises (NULL: none does).
RECURSIVE notify_each(_, _, _)
notify_each(todo, table, fails_at) ==
    IF todo = << >> THEN [table |-> table, raised |-> FALSE]
    ELSE LET t == Head(todo)
             row == tasks[t]
         IN  IF notified_today(table, row.assigned_to, t)
             THEN notify_each(Tail(todo), table, fails_at)
             ELSE IF t = fails_at THEN [table |-> table, raised |-> TRUE]
             ELSE notify_each(Tail(todo),
                    table @@ (lastrowid(table) :>
                        notification_row(row.assigned_to, t, row.project_id,
                            row.due_date - CURDATE, CURDATE)),
                    fails_at)

\* create_due_date_notifications: one transaction for the whole scan,
\* committed after the loop and rolled back when a statement raises.
create_due_date_notifications(org_id, days_ahead, fails_at) ==
    LET done == notify_each(in_id_order(upcoming_tasks(org_id, days_ahead)),
                            notifications, fails_at)
    IN  IF done.raised
        THEN [notifications |-> notifications, ret |-> FALSE]
        ELSE [notifications |-> done.table, ret |-> TRUE]

\* POST /admin/generate-notifications
generate_notifications(b, fails_at) ==
    LET gate == admin_required(b)
        done == create_due_date_notifications(session[b].organization_id,
                    DefaultDaysAhead, fails_at)
    IN  /\ resp' = Response("generate_notifications", b, NULL,
                    IF gate # "pass" THEN gate
                    ELSE IF done.ret THEN "generated" ELSE "failed", {})
        /\ notifications' =
                IF gate = "pass" THEN done.notifications ELSE notifications
        /\ UNCHANGED <<users, session, conn, projects, milestones, tasks,
                       project_members, project_visibility, documents,
                       daily_reports, messages>>

(***************************************************************************)
(* Store calls statement by statement.  Two requests are served at the    *)
(* same time, each on the connection get_connection() opens for it       *)
(* (pymysql, autocommit off), against InnoDB tables at the isolation     *)
(* level the code leaves in place (REPEATABLE READ).  project_members    *)
(* holds the newest version of every row; a connection keeps the images  *)
(* of the rows it changed (before), the index records it has locked      *)
(* (locks) and the projects whose gap in the index on project_id it has  *)
(* locked (gaps) until it commits or is rolled back.                      *)
(***************************************************************************)
Connections == {1, 2}

other(c) == CHOOSE o \in Connections : o # c

\* A connection on which no store call runs.
closed_connection ==
    [op |-> "none", pc |-> "closed", project_id |-> NULL, member_ids |-> <<>>,
     todo |-> <<>>, data |-> <<>>, task_id |-> NULL, snapshot |-> EmptyBag,
     before |-> {}, locks |-> {}, gaps |-> {}, waits |-> FALSE,
     logged |-> {}, ret |-> ""]

NoConnections == [c \in Connections |-> closed_connection]

\* The kind of the row stored for (project_id, user_id); "" when there is
\* none.
role_of(pm, project_id, user_id) ==
    IF BagIn(member_row(project_id, user_id, "member"), pm) THEN "member"
    ELSE IF BagIn(member_row(project_id, user_id, "manager"), pm)
    THEN "manager"
    ELSE ""

\* The image of the row of (project_id, user_id), kept for a rollback
\* unless the connection has one of this row already.
image(pm, before, project_id, user_id) ==
    IF \E i \in before : i.key = <<project_id, user_id>> THEN before
    ELSE before \cup {[key |-> <<project_id, user_id>>,
                       role |-> role_of(pm, project_id, user_id)]}

\* Table pm after the rollback of a transaction with these images.
rolled_back(pm, before) ==
    only_rows(pm, {r \in DOMAIN pm :
                    \A i \in before : i.key # <<r.project_id, r.user_id>>})
        (+) SetToBag({member_row(i.key[1], i.key[2], i.role) :
                        i \in {j \in before : j.role # ""}})

\* The committed rows: what a consistent read sees.
committed_rows ==
    rolled_back(rolled_back(project_members, conn[1].before), conn[2].before)

\* A table without the key unique_project_user: the INSERT never fails.
insert_member_without_key(pm, project_id, user_id) ==
    [pm |-> pm (+) SetToBag({member_row(project_id, user_id, "member")}),
     raises |-> FALSE]

\* INSERT INTO project_members (project_id, user_id, role) VALUES (.., ..,
\* 'member'): the key unique_project_user refuses a second row of the pair
\* with error 1062.
insert_member(pm, project_id, user_id) ==
    IF unique_project_user(pm, project_id, user_id)
    THEN [pm |-> pm (+) SetToBag({member_row(project_id, user_id, "member")}),
          raises |-> FALSE]
    ELSE [pm |-> pm, raises |-> TRUE]

\* INSERT .. ON DUPLICATE KEY UPDATE role = 'member'.
insert_member_on_duplicate_key_update(pm, project_id, user_id) ==
    IF unique_project_user(pm, project_id, user_id)
    THEN pm (+) SetToBag({member_row(project_id, user_id, "member")})
    ELSE only_rows(pm, {r \in DOMAIN pm :
                        ~(r.project_id = project_id /\ r.user_id = user_id)})
            (+) SetToBag({member_row(project_id, user_id, "member")})

\* The index records DELETE .. WHERE project_id = .. reads and locks.
scanned(pm, project_id) ==
    {<<r.project_id, r.user_id>> : r \in {x \in DOMAIN pm :
                                            x.project_id = project_id}}

\* DELETE waits for a record of the project that connection o has locked.
delete_blocked(o, project_id) ==
    \E k \in conn[o].locks : k[1] = project_id

\* INSERT waits for the record of the pair when connection o has locked
\* it, and for the gap o has locked when there is no such record.
insert_blocked(o, project_id, user_id) ==
    \/ <<project_id, user_id>> \in conn[o].locks
    \/ /\ role_of(project_members, project_id, user_id) = ""
       /\ project_id \in conn[o].gaps

\* The statement connection c has sent waits for a lock.
waiting(c) ==
    /\ conn[c].waits
    /\ \/ /\ conn[c].pc = "delete"
          /\ delete_blocked(other(c), conn[c].project_id)
       \/ /\ conn[c].pc = "insert"
          /\ insert_blocked(other(c), conn[c].project_id, Head(conn[c].todo))
       \/ /\ conn[c].pc = "add"
          /\ insert_blocked(other(c), conn[c].data.project_id,
                            conn[c].data.assigned_to)

\* conn.close() and the value the store call returns.
closed(connection, ret) ==
    [connection EXCEPT !.pc = "closed", !.before = {}, !.locks = {},
                       !.gaps = {}, !.waits = FALSE, !.ret = ret]

(***************************************************************************)
(* assign_team_members_to_project, one statement a step.                   *)
(***************************************************************************)
\* conn = self.get_connection(); cursor = conn.cursor()
assign_team_members_connect(c, project_id, member_ids) ==
    /\ conn[c].op = "none"
    /\ conn' = [conn EXCEPT ![c] =
                    [@ EXCEPT !.op = "assign_team_members_to_project",
                              !.pc = "delete", !.project_id = project_id,
                              !.member_ids = member_ids,
                              !.todo = member_ids]]
    /\ UNCHANGED <<store, session, resp>>

\* DELETE FROM project_members WHERE project_id = %s AND role = 'member'
\* It locks the records of the project and the gap after them.
assign_team_members_delete(c) ==
    LET project_id == conn[c].project_id
    IN  /\ conn[c].pc = "delete"
        /\ IF delete_blocked(other(c), project_id)
           THEN /\ ~conn[c].waits
                /\ conn' = [conn EXCEPT ![c].waits = TRUE]
                /\ UNCHANGED project_members
           ELSE /\ project_members' =
                        delete_member_rows(project_members, project_id)
                /\ conn' = [conn EXCEPT ![c] =
                    [@ EXCEPT
                        !.pc = IF conn[c].todo = <<>> THEN "commit"
                               ELSE "insert",
                        !.before =
                            @ \cup {[key |-> <<r.project_id, r.user_id>>,
                                     role |-> "member"] :
                                r \in {x \in DOMAIN project_members :
                                        /\ x.project_id = project_id
                                        /\ x.role = "member"}},
                        !.locks = @ \cup scanned(project_members, project_id),
                        !.gaps = @ \cup {project_id},
                        !.waits = FALSE]]
        /\ UNCHANGED <<users, session, projects, milestones, tasks,
                       project_visibility, documents, daily_reports, messages,
                       notifications, resp>>

\* for member_id in member_ids: try: INSERT .. ON DUPLICATE KEY UPDATE
\* except Exception: continue.  When the INSERT has to wait for the other
\* connection and that one waits for this one, InnoDB ends the deadlock:
\* it rolls back the transaction of the connection whose request closed
\* the cycle (neither has changed a row then), the INSERT raises error
\* 1213, and the loop goes on to the next member_id.
assign_team_members_insert(c) ==
    LET project_id == conn[c].project_id
        member_id == Head(conn[c].todo)
        next == IF Tail(conn[c].todo) = <<>> THEN "commit" ELSE "insert"
    IN  /\ conn[c].pc = "insert"
        /\ IF ~insert_blocked(other(c), project_id, member_id)
           THEN /\ project_members' =
                    insert_member_on_duplicate_key_update(
                        project_members, project_id, member_id)
                /\ conn' = [conn EXCEPT ![c] =
                    [@ EXCEPT
                        !.pc = next, !.todo = Tail(@),
                        !.before = image(project_members, @,
                                         project_id, member_id),
                        !.locks = @ \cup {<<project_id, member_id>>},
                        !.waits = FALSE]]
           ELSE IF ~waiting(other(c))
           THEN /\ ~conn[c].waits
                /\ conn' = [conn EXCEPT ![c].waits = TRUE]
                /\ UNCHANGED project_members
           ELSE /\ project_members' =
                        rolled_back(project_members, conn[c].before)
                /\ conn' = [conn EXCEPT ![c] =
                    [@ EXCEPT
                        !.pc = next, !.todo = Tail(@), !.before = {},
                        !.locks = {}, !.gaps = {}, !.waits = FALSE,
                        !.logged = @ \cup {1213}]]
        /\ UNCHANGED <<users, session, projects, milestones, tasks,
                       project_visibility, documents, daily_reports, messages,
                       notifications, resp>>

\* conn.commit(); return True
assign_team_members_commit(c) ==
    /\ conn[c].op = "assign_team_members_to_project"
    /\ conn[c].pc = "commit"
    /\ conn' = [conn EXCEPT ![c] = closed(@, "True")]
    /\ UNCHANGED <<store, session, resp>>

(***************************************************************************)
(* create_task with add_user_to_project_team, one statement a step.        *)
(***************************************************************************)
\* The id the AUTO_INCREMENT of tasks hands out: ids taken by an INSERT
\* that is not committed yet are not handed out again.
next_task_id(o) ==
    IF conn[o].task_id # NULL /\ conn[o].task_id >= lastrowid(tasks)
    THEN conn[o].task_id + 1
    ELSE lastrowid(tasks)

\* get_connection, validate_date_within_project (the first read of the
\* transaction, which fixes what its later reads see) and INSERT INTO
\* tasks.  An exception rolls back and returns None.
create_task_connect(c, data) ==
    /\ conn[c].op = "none"
    /\ conn' = [conn EXCEPT ![c] =
        IF create_task_raises(data)
        THEN [@ EXCEPT !.op = "create_task", !.data = data, !.ret = "None"]
        ELSE [@ EXCEPT !.op = "create_task", !.data = data,
                       !.task_id = next_task_id(other(c)),
                       !.snapshot = committed_rows,
                       !.pc = IF data.assigned_to # NULL THEN "select"
                              ELSE "commit"]]
    /\ UNCHANGED <<store, session, resp>>

\* add_user_to_project_team: SELECT id FROM project_members WHERE
\* project_id = %s AND user_id = %s; if not cursor.fetchone(): ..
add_user_to_project_team_select(c) ==
    /\ conn[c].pc = "select"
    /\ conn' = [conn EXCEPT ![c].pc =
                    IF role_of(conn[c].snapshot, conn[c].data.project_id,
                               conn[c].data.assigned_to) = ""
                    THEN "add" ELSE "commit"]
    /\ UNCHANGED <<store, session, resp>>

\* add_user_to_project_team: the INSERT.  It waits for a lock of the other
\* connection; an exception it raises is logged and goes no further.
add_user_to_project_team_insert(c) ==
    LET project_id == conn[c].data.project_id
        user_id == conn[c].data.assigned_to
        done == insert_member(project_members, project_id, user_id)
    IN  /\ conn[c].pc = "add"
        /\ IF insert_blocked(other(c), project_id, user_id)
           THEN /\ ~conn[c].waits
                /\ conn' = [conn EXCEPT ![c].waits = TRUE]
                /\ UNCHANGED project_members
           ELSE /\ project_members' = done.pm
                /\ conn' = [conn EXCEPT ![c] =
                    [@ EXCEPT
                        !.pc = "commit",
                        !.before = IF done.raises THEN @
                                   ELSE image(project_members, @,
                                              project_id, user_id),
                        !.locks = @ \cup {<<project_id, user_id>>},
                        !.waits = FALSE,
                        !.logged = IF done.raises THEN @ \cup {1062}
                                   ELSE @]]
        /\ UNCHANGED <<users, session, projects, milestones, tasks,
                       project_visibility, documents, daily_reports, messages,
                       notifications, resp>>

\* conn.commit(); return task_id
create_task_commit(c) ==
    LET data == conn[c].data
    IN  /\ conn[c].op = "create_task"
        /\ conn[c].pc = "commit"
        /\ tasks' = (conn[c].task_id :>
                        task_row(data.project_id, data.milestone_id,
                                 data.title, "pending", data.priority,
                                 data.assigned_to, data.due_date,
                                 data.created_by)) @@ tasks
        /\ conn' = [conn EXCEPT ![c] = closed(@, "task_id")]
        /\ UNCHANGED <<users, session, projects, milestones, project_members,
                       project_visibility, documents, daily_reports, messages,
                       notifications, resp>>

(***************************************************************************)
(* Specification Spec: the project handlers, run by five logged-in users  *)
(* and one browser without a cookie, on the demo data.                    *)
(***************************************************************************)
\* The browsers: browser i is the one user i uses; browser 6 never logs in.
Browsers == DOMAIN DemoUsers \cup {6}

\* Every user logged in while holding the role they hold now.
FreshSessions == [u \in DOMAIN DemoUsers |-> cookie(u, DemoUsers[u])]

\* As FreshSessions, but user 4 logged in as an admin and was made a
\* manager afterwards (edit_user): the cookie still says admin.
StaleSessions == [FreshSessions EXCEPT ![4].user_role = "admin"]

InitStore ==
    /\ users = DemoUsers
    /\ projects = DemoProjects
    /\ milestones = DemoMilestones
    /\ tasks = DemoTasks
    /\ project_members = DemoMembers
    /\ project_visibility = {}
    /\ documents = DemoDocuments
    /\ daily_reports = DemoReports
    /\ messages = DemoMessages
    /\ notifications = DemoNotifications
    /\ resp = NoResponse
    /\ conn = NoConnections

Init ==
    /\ InitStore
    /\ session \in {FreshSessions, StaleSessions}

\* The forms submitted to edit_project.
ProjectForms ==
    {[name |-> "E-Commerce Platform", description |-> "",
      start_date |-> NULL, end_date |-> NULL,
      status |-> f[1], assigned_manager_id |-> f[2]] :
        f \in {<<"completed", 2>>, <<"active", 4>>}}

Next ==
    \E b \in Browsers :
        \/ list_projects(b)
        \/ \E id \in DOMAIN DemoProjects :
            \/ view_project(b, id)
            \/ delete_project(b, id)
            \/ \E form \in ProjectForms :
                  edit_project(b, id, "POST", form)
            \/ edit_project(b, id, "GET", CHOOSE form \in ProjectForms : TRUE)

Spec == Init /\ [][Next]_vars

(***************************************************************************)
(* Specification SpecTasks: the task handlers on the demo data.            *)
(***************************************************************************)
\* The tasks table is let grow to MaxTasks rows.
MaxTasks == 5

\* The forms submitted to new_task: a task of project 1 for user 4, who is
\* not on its team, the same task for nobody, and a task of a project
\* that is not stored.
NewTaskForms ==
    {[title |-> "New", description |-> "", project_id |-> f[1],
      assigned_to |-> f[2], priority |-> "medium", due_date |-> 12,
      milestone_id |-> 1] :
        f \in {<<1, 4>>, <<1, NULL>>, <<9, NULL>>}}

\* The forms submitted to edit_task.
EditTaskForms ==
    {[title |-> "Renamed", description |-> "", assigned_to |-> f[1],
      priority |-> "high", status |-> f[2], due_date |-> 12,
      milestone_id |-> 1] :
        f \in {<<4, "completed">>, <<NULL, "pending">>}}

InitTasks ==
    /\ InitStore
    /\ session = FreshSessions

\* Tasks are created by the admin and by the member; the admin and a
\* manager assign milestone 1 and a milestone that is not stored to user
\* 4 and to user 5 of the other organization; the admin moves tasks 1 and
\* 2 to user 4.
NextTasks ==
    \/ \E b \in {1, 3} :
        \/ /\ lastrowid(tasks) <= MaxTasks
           /\ \E form \in NewTaskForms : new_task(b, "POST", form)
        \/ new_task(b, "GET", CHOOSE form \in NewTaskForms : TRUE)
    \/ \E b \in {1, 4}, milestone_id \in {1, 2}, user_id \in {4, 5} :
            assign_milestone(b, milestone_id, user_id)
    \/ \E id \in {1, 2} :
        \E form \in {f \in EditTaskForms : f.assigned_to = 4} :
            edit_task(1, id, "POST", form)

SpecTasks == InitTasks /\ [][NextTasks]_vars

(***************************************************************************)
(* Specification SpecTaskEdit: every browser views and edits the demo     *)
(* tasks and asks for a task that is not stored.                           *)
(***************************************************************************)
NextTaskEdit ==
    \E b \in Browsers, id \in DOMAIN DemoTasks \cup {4} :
        \/ view_task(b, id)
        \/ \E form \in EditTaskForms : edit_task(b, id, "POST", form)
        \/ edit_task(b, id, "GET", CHOOSE form \in EditTaskForms : TRUE)

SpecTaskEdit == InitTasks /\ [][NextTaskEdit]_vars

(***************************************************************************)
(* Specification SpecUsers: every browser creates users and edits the     *)
(* member, the second manager and the admin of organization 2.            *)
(***************************************************************************)
\* The forms submitted to new_user.
NewUserForms ==
    {[full_name |-> "New", email |-> "new@demo.com", password |-> "pw",
      phone |-> "", role |-> r] : r \in {"admin", "member"}}

\* The forms submitted to edit_user: the address of user 4 with a new
\* password, and the address of user 3 without one.
EditUserForms ==
    {[full_name |-> "Renamed", email |-> "lead@demo.com", phone |-> "555",
      role |-> "manager", is_active |-> TRUE, password |-> "secret"],
     [full_name |-> "Renamed", email |-> "lead@demo.com", phone |-> "555",
      role |-> "admin", is_active |-> TRUE, password |-> "secret"],
     [full_name |-> "Renamed", email |-> "member@demo.com", phone |-> "",
      role |-> "member", is_active |-> FALSE, password |-> ""]}

InitUsers ==
    /\ InitStore
    /\ session = FreshSessions

NextUsers ==
    \E b \in Browsers :
        \/ \E form \in NewUserForms : new_user(b, "POST", form)
        \/ new_user(b, "GET", CHOOSE form \in NewUserForms : TRUE)
        \/ \E id \in {3, 4, 5} :
            \/ \E form \in EditUserForms : edit_user(b, id, "POST", form)
            \/ edit_user(b, id, "GET", CHOOSE form \in EditUserForms : TRUE)

SpecUsers == InitUsers /\ [][NextUsers]_vars

(***************************************************************************)
(* Specification SpecTenants: requests for the resources of both          *)
(* organizations.  Every browser asks for the documents and the daily     *)
(* reports; the admins of the two organizations ask for projects 1 and 3  *)
(* and for task 1.                                                         *)
(***************************************************************************)
\* Downloads are counted up to MaxDownloads for each document.
MaxDownloads == 2

\* The admins of organization 1 and of organization 2.
Admins == {1, 5}

NextTenants ==
    \/ \E b \in Browsers, id \in DOMAIN DemoDocuments \cup {3} :
        \/ /\ id \in DOMAIN documents =>
                    documents[id].download_count < MaxDownloads
           /\ documents_download(b, id)
        \/ documents_delete(b, id)
        \/ view_daily_report(b, id)
    \/ \E b \in Admins, id \in {1, 3} :
        \/ view_project(b, id)
        \/ delete_project(b, id)
        \/ edit_project(b, id, "POST",
                CHOOSE form \in ProjectForms : form.status = "completed")
    \/ \E b \in Admins :
        \/ view_task(b, 1)
        \/ edit_task(b, 1, "POST",
                CHOOSE form \in EditTaskForms : form.status = "completed")

SpecTenants == InitTasks /\ [][NextTenants]_vars

(***************************************************************************)
(* Specification SpecTeam: the team of project 1.  The admin of            *)
(* organization 1 edits the project (its status goes to completed and     *)
(* back to active), sets and clears its team and removes single members;  *)
(* manager 2 and the admin of organization 2 try the team handlers too.   *)
(* The removal step of update_project and the message to the assigned     *)
(* manager may fail.                                                       *)
(***************************************************************************)
\* The forms submitted to edit_project: the assigned manager stays user 2;
\* the second form for 'completed' also rewrites the description.
TeamProjectForms ==
    {[name |-> "E-Commerce Platform", description |-> f[2],
      start_date |-> NULL, end_date |-> NULL,
      status |-> f[1], assigned_manager_id |-> 2] :
        f \in {<<"completed", "">>, <<"completed", "done">>, <<"active", "">>}}

\* The lists of member ids submitted to manage_project_team_members: none,
\* the member, the member and the holder of the manager row, no user.
TeamLists == {<< >>, <<3>>, <<2, 3>>, <<9>>}

NextTeam ==
    \/ \E form \in TeamProjectForms, removal_raises \in BOOLEAN :
            edit_project_on(1, 1, "POST", form, removal_raises)
    \/ \E b \in {1, 2, 5}, message_fails \in BOOLEAN :
        \/ \E member_ids \in TeamLists :
                manage_project_team_members(b, 1, "POST", member_ids,
                                            message_fails)
        \/ manage_project_team_members(b, 1, "GET", << >>, message_fails)
        \/ \E member_id \in {2, 3, 9} :
                remove_project_team_member(b, 1, member_id, message_fails)

SpecTeam == InitTasks /\ [][NextTeam]_vars

(***************************************************************************)
(* Specification SpecManagers: projects are created and edited with the   *)
(* manager ids a form can carry: nobody, a manager of organization 1, the *)
(* admin of organization 2 and an id that is no user.                      *)
(***************************************************************************)
\* The projects table is let grow to MaxProjects rows.
MaxProjects == 4

\* The ids submitted as assigned_manager_id.
ManagerIds == {NULL, 4, 5, 9}

\* The forms submitted to new_project and to edit_project.
ManagerForms ==
    {[name |-> "Portal", description |-> "", start_date |-> NULL,
      end_date |-> NULL, status |-> "active",
      assigned_manager_id |-> m] : m \in ManagerIds}

NextManagers ==
    \E b \in {1, 2, 3}, form \in ManagerForms :
        \/ /\ lastrowid(projects) <= MaxProjects
           /\ new_project(b, "POST", form)
        \/ new_project(b, "GET", form)
        \/ \E id \in {1, 2} : edit_project(b, id, "POST", form)

SpecManagers == InitTasks /\ [][NextManagers]_vars

(***************************************************************************)
(* Specification SpecNotify: runs of the due-date notification generator  *)
(* on one day.  Both organizations have tasks; between the runs the admin *)
(* of organization 1 edits task 1 (assignee, status, due date); the       *)
(* INSERT for task 1 or task 2 may raise.                                  *)
(***************************************************************************)
\* The demo tasks and a task of project 3 of organization 2.
NotifyTasks ==
    DemoTasks @@ (4 :> task_row(3, NULL, "Other task", "pending", "low", 5, 11, 5))

\* The forms submitted to edit_task for task 1: due today, tomorrow, on
\* the last day of the window, the day after it, yesterday and never; no
\* assignee; completed.
NotifyTaskForms ==
    {[title |-> "Create wireframes", description |-> "", assigned_to |-> f[1],
      priority |-> "high", status |-> f[2], due_date |-> f[3],
      milestone_id |-> 1] :
        f \in {<<4, "pending", CURDATE>>, <<4, "pending", CURDATE + 1>>,
               <<4, "pending", CURDATE + DefaultDaysAhead>>,
               <<4, "pending", CURDATE + DefaultDaysAhead + 1>>,
               <<4, "pending", CURDATE - 1>>, <<4, "pending", NULL>>,
               <<NULL, "pending", CURDATE + 1>>,
               <<4, "completed", CURDATE + 1>>}}

\* The browsers that ask for a run: the admin, the manager and the member
\* of organization 1, the admin of organization 2, and nobody.
NotifyBrowsers == {1, 2, 3, 5, 6}

InitNotify ==
    /\ users = DemoUsers
    /\ session = FreshSessions
    /\ projects = DemoProjects
    /\ milestones = DemoMilestones
    /\ tasks = NotifyTasks
    /\ project_members = DemoMembers
    /\ project_visibility = {}
    /\ documents = DemoDocuments
    /\ daily_reports = DemoReports
    /\ messages = DemoMessages
    /\ notifications = DemoNotifications
    /\ resp = NoResponse
    /\ conn = NoConnections

NextNotify ==
    \/ \E b \in NotifyBrowsers, fails_at \in {NULL, 1, 2} :
            generate_notifications(b, fails_at)
    \/ \E form \in NotifyTaskForms : edit_task(1, 1, "POST", form)

SpecNotify == InitNotify /\ [][NextNotify]_vars

(***************************************************************************)
(* Specification SpecVisibility: the admin and the managers of             *)
(* organization 1 set the visibility of projects 1 and 2 and grant them   *)
(* to member 3; the admin sets and clears the team of projects 1 and 2;   *)
(* the member, a manager and the admin of organization 2 list their       *)
(* projects.                                                               *)
(***************************************************************************)
\* The lists of member ids submitted with the visibility: none, member 3,
\* member 3 twice.
GrantLists == {<< >>, <<3>>, <<3, 3>>}

NextVisibility ==
    \/ \E b \in {1, 3, 4}, id \in {1, 2} :
        \/ \E visibility \in {"all", "specific"}, member_ids \in GrantLists :
            project_visibility_route(b, id, "POST", visibility, member_ids)
        \/ project_visibility_route(b, id, "GET", "all", << >>)
    \/ \E id \in {1, 2}, member_ids \in {<< >>, <<3>>} :
            manage_project_team_members(1, id, "POST", member_ids, FALSE)
    \/ \E b \in {3, 4, 5} : list_projects(b)

SpecVisibility == InitTasks /\ [][NextVisibility]_vars

(***************************************************************************)
(* Specification SpecDocuments: who may view and who may delete the       *)
(* documents of projects 1, 2 and 3, and who may view the daily reports.  *)
(* Documents 3 and 4 were uploaded by the admin and by manager 2; member  *)
(* 3 submitted a daily report for every setting of the two visibility     *)
(* flags; the admin of organization 1 sets and clears the team of         *)
(* project 1.                                                              *)
(***************************************************************************)
\* The demo documents, a document of project 1 uploaded by the admin and a
\* document of project 2 uploaded by manager 2.
ProjectDocuments ==
    DemoDocuments @@ (3 :> document_row(1, 1, 1)) @@ (4 :> document_row(1, 2, 2))

\* The demo reports and three more reports of member 3 for project 1:
\* visible to admins only, to nobody, to managers and admins.
FlaggedReports ==
    DemoReports @@
    (3 :> [user_id |-> 3, organization_id |-> 1, project_id |-> 1,
           visible_to_manager |-> FALSE, visible_to_admin |-> TRUE]) @@
    (4 :> [user_id |-> 3, organization_id |-> 1, project_id |-> 1,
           visible_to_manager |-> FALSE, visible_to_admin |-> FALSE]) @@
    (5 :> [user_id |-> 3, organization_id |-> 1, project_id |-> 1,
           visible_to_manager |-> TRUE, visible_to_admin |-> TRUE])

InitDocuments ==
    /\ users = DemoUsers
    /\ session = FreshSessions
    /\ projects = DemoProjects
    /\ milestones = DemoMilestones
    /\ tasks = DemoTasks
    /\ project_members = DemoMembers
    /\ project_visibility = {}
    /\ documents = ProjectDocuments
    /\ daily_reports = FlaggedReports
    /\ messages = DemoMessages
    /\ notifications = DemoNotifications
    /\ resp = NoResponse
    /\ conn = NoConnections

NextDocuments ==
    \/ \E b \in Browsers, doc_id \in DOMAIN ProjectDocuments \cup {5} :
        \/ document_view_permission(b, doc_id)
        \/ documents_delete(b, doc_id)
    \/ \E b \in Browsers, report_id \in DOMAIN FlaggedReports \cup {6} :
            view_daily_report(b, report_id)
    \/ \E member_ids \in {<< >>, <<3>>} :
            manage_project_team_members(1, 1, "POST", member_ids, TRUE)

SpecDocuments == InitDocuments /\ [][NextDocuments]_vars

(***************************************************************************)
(* Specification SpecReports: who is shown which daily report.  Member 3  *)
(* and manager 2 each submitted a report for every setting of the two     *)
(* visibility flags, with project 1 and with no project; the admin of     *)
(* organization 1 sets and clears the team of project 1.                   *)
(***************************************************************************)
\* Report i of organization 1: the submitter, the project and the two
\* flags are the four binary digits of i - 1.
role_report(i) ==
    [user_id |-> IF (i - 1) % 2 = 0 THEN 3 ELSE 2,
     organization_id |-> 1,
     project_id |-> IF ((i - 1) \div 2) % 2 = 0 THEN 1 ELSE NULL,
     visible_to_manager |-> ((i - 1) \div 4) % 2 = 1,
     visible_to_admin |-> ((i - 1) \div 8) % 2 = 1]

\* Sixteen reports of organization 1 and the report of organization 2.
RoleReports ==
    [i \in 1..16 |-> role_report(i)] @@ (17 :> DemoReports[2])

InitReports ==
    /\ users = DemoUsers
    /\ session = FreshSessions
    /\ projects = DemoProjects
    /\ milestones = DemoMilestones
    /\ tasks = DemoTasks
    /\ project_members = DemoMembers
    /\ project_visibility = {}
    /\ documents = DemoDocuments
    /\ daily_reports = RoleReports
    /\ messages = DemoMessages
    /\ notifications = DemoNotifications
    /\ resp = NoResponse
    /\ conn = NoConnections

NextReports ==
    \/ \E b \in Browsers :
        \/ \E report_id \in DOMAIN RoleReports \cup {18} :
                view_daily_report(b, report_id)
        \/ daily_reports_route(b)
    \/ \E member_ids \in {<< >>, <<3>>, <<4>>, <<3, 4>>} :
            manage_project_team_members(1, 1, "POST", member_ids, TRUE)

SpecReports == InitReports /\ [][NextReports]_vars

(***************************************************************************)
(* Specification SpecConnections: two requests at the same time, each     *)
(* running assign_team_members_to_project or create_task once.            *)
(***************************************************************************)
\* The member_ids of the forms: one user, two users, the same user twice
\* and nobody.  User 2 has the row of kind manager on project 1.
MemberLists == {<<3>>, <<4, 2>>, <<3, 3>>, <<>>}

\* The data of create_task: a task of project 1 or 2 for user 4, who has
\* no row on either, and a task of a project that is not stored.
ConnectionTasks ==
    {[title |-> "New", description |-> "", project_id |-> p,
      assigned_to |-> 4, priority |-> "medium", due_date |-> 12,
      milestone_id |-> NULL, created_by |-> 1] : p \in {1, 2, 9}}

NextConnections ==
    \E c \in Connections :
        \/ \E project_id \in {1, 2}, member_ids \in MemberLists :
                assign_team_members_connect(c, project_id, member_ids)
        \/ assign_team_members_delete(c)
        \/ assign_team_members_insert(c)
        \/ assign_team_members_commit(c)
        \/ \E data \in ConnectionTasks : create_task_connect(c, data)
        \/ add_user_to_project_team_select(c)
        \/ add_user_to_project_team_insert(c)
        \/ create_task_commit(c)

SpecConnections == InitTasks /\ [][NextConnections]_vars

(***************************************************************************)
(* Specification SpecSessions: the admin changes the role and the active  *)
(* flag of the manager and of the member, who are logged in, log in again *)
(* and ask for the list of all tasks.                                      *)
(***************************************************************************)
\* The form the admin submits to edit_user for user id: the user's name
\* and address as stored, no new password, a role and the active box.
SessionUserForm(id, role, is_active) ==
    [full_name |-> DemoUsers[id].full_name, email |-> DemoUsers[id].email,
     phone |-> DemoUsers[id].phone, role |-> role, is_active |-> is_active,
     password |-> ""]

\* The browsers of the manager and of the member, and one that starts
\* logged out.
SessionBrowsers == {2, 3, 6}

NextSessions ==
    \/ \E id \in {2, 3}, role \in {"manager", "member"},
          is_active \in BOOLEAN :
            edit_user(1, id, "POST", SessionUserForm(id, role, is_active))
    \/ \E id \in {2, 3} : toggle_user_status(1, id)
    \/ \E b \in SessionBrowsers, u \in {2, 3} :
        \E password \in {DemoUsers[u].email, "guess"} :
            login(b, "POST", DemoUsers[u].email, password)
    \/ \E b \in SessionBrowsers : all_tasks(b, "")

SpecSessions == InitTasks /\ [][NextSessions]_vars

(***************************************************************************)
(* Properties of the project handlers.                                     *)
(***************************************************************************)
\* C2: a member may view a project P of their organization exactly when
\* P.visibility = 'all' or a project_members row (P, member) is stored: the
\* listing of GET /projects holds exactly those projects, and view_project
\* serves P exactly in that case.
C2_MemberViewsIffVisibleOrMember ==
    \A b \in DOMAIN session :
        (session[b].user_role = "member" /\ stored_role(b) = "member"
            /\ resp.actor = b /\ resp.result # "login") =>
            /\ resp.op = "projects" =>
                resp.listed =
                    {p \in get_organization_projects(session[b].organization_id) :
                        \/ projects[p].visibility = "all"
                        \/ rows_of(project_members, p, session[b].user_id) > 0}
            /\ (resp.op = "view_project" /\ own_project(b, resp.target)) =>
                (resp.result = "ok" <=>
                    \/ projects[resp.target].visibility = "all"
                    \/ rows_of(project_members, resp.target,
                               session[b].user_id) > 0)

\* C3: a delete_project request of a user whose stored role is manager is
\* denied and changes no table, whatever the cookie says and also when the
\* user is the assigned manager of the project.
C3_ManagerNeverDeletesProject ==
    [][\A b \in Browsers, id \in DOMAIN DemoProjects :
        (login_required(b) /\ stored_role(b) = "manager"
            /\ delete_project(b, id)) =>
            (resp'.result = "denied" /\ UNCHANGED store)]_vars

\* C3 happens: the assigned manager of project 1, which has tasks, a
\* milestone and memberships, asked to delete it and was denied.
C3_Witness ==
    /\ resp.op = "delete_project" /\ resp.actor = 2 /\ resp.target = 1
    /\ resp.result = "denied"
    /\ users[2].role = "manager"
    /\ 1 \in DOMAIN projects /\ projects[1].assigned_manager_id = 2
    /\ \E t \in DOMAIN tasks : tasks[t].project_id = 1
    /\ \E m \in DOMAIN milestones : milestones[m].project_id = 1
    /\ rows_of(project_members, 1, 2) > 0

\* C6: a manager's edit_project POST on a project whose assigned_manager_id
\* is not the manager's id is refused and changes no table.
C6_ManagerEditsOnlyAssignedProject ==
    [][\A b \in Browsers, id \in DOMAIN DemoProjects, form \in ProjectForms :
        (/\ login_required(b) /\ stored_role(b) = "manager"
         /\ session[b].user_role = "manager"
         /\ own_project(b, id)
         /\ projects[id].assigned_manager_id # session[b].user_id
         /\ edit_project(b, id, "POST", form)) =>
            (Refused(resp') /\ UNCHANGED store)]_vars

(***************************************************************************)
(* Properties of the task handlers.                                        *)
(***************************************************************************)
\* C4: when a browser whose role is member edits a task through edit_task,
\* the tables other than tasks stay as they are; if the task is assigned
\* to that user only its status and completion date can change, the
\* completion date being today for status completed and empty otherwise,
\* whatever the form holds; if it is not, nothing changes and the request
\* is refused.
C4_MemberEditsOnlyStatus ==
    [][\A b \in Browsers, id \in DOMAIN DemoTasks \cup {4},
          method \in {"GET", "POST"}, form \in EditTaskForms :
        (/\ login_required(b) /\ session[b].user_role = "member"
         /\ edit_task(b, id, method, form)) =>
            /\ UNCHANGED <<users, projects, milestones, project_members,
                           project_visibility, documents, daily_reports,
                           messages, notifications>>
            /\ IF get_task_by_id(id)
                    /\ tasks[id].assigned_to = session[b].user_id
               THEN /\ tasks' = [tasks EXCEPT
                            ![id].status = tasks'[id].status,
                            ![id].completion_date = tasks'[id].completion_date]
                    /\ tasks' # tasks =>
                        /\ tasks'[id].status = form.status
                        /\ tasks'[id].completion_date =
                            IF form.status = "completed" THEN CURDATE ELSE NULL
               ELSE tasks' = tasks /\ Refused(resp')]_vars

\* C4 happens: member 3 posted a form with another title, assignee and
\* priority for task 2, which is theirs; the task is completed today and
\* its other fields are those of the demo data.
C4_Witness ==
    /\ resp.op = "edit_task" /\ resp.actor = 3 /\ resp.target = 2
    /\ resp.result = "updated"
    /\ session[3].user_role = "member"
    /\ tasks[2] = [DemoTasks[2] EXCEPT !.status = "completed",
                                       !.completion_date = CURDATE]

\* C5: a manager's view_task or edit_task on a task of a project of their
\* organization whose assigned manager is somebody else is denied and
\* changes no table.
C5_ManagerTaskOnlyInAssignedProject ==
    [][\A b \in Browsers, id \in DOMAIN DemoTasks, form \in EditTaskForms :
        (/\ login_required(b) /\ session[b].user_role = "manager"
         /\ stored_role(b) = "manager"
         /\ get_task_by_id(id)
         /\ own_project(b, tasks[id].project_id)
         /\ projects[tasks[id].project_id].assigned_manager_id
                # session[b].user_id
         /\ (view_task(b, id) \/ edit_task(b, id, "POST", form))) =>
            (resp'.result = "denied" /\ UNCHANGED store)]_vars

\* C9: a new_task that stores a task for user U in project P leaves
\* exactly one project_members row for (P, U), and when a row was stored
\* before it the table project_members is not changed.
C9_TeamRowAddedOnce ==
    [][\A b \in Browsers, form \in NewTaskForms :
        (/\ form.assigned_to # NULL
         /\ new_task(b, "POST", form)
         /\ resp'.result = "created") =>
            /\ rows_of(project_members', form.project_id,
                       form.assigned_to) = 1
            /\ rows_of(project_members, form.project_id,
                       form.assigned_to) > 0 =>
                    project_members' = project_members]_vars

\* C9 happens: two tasks of project 1 were created for user 4 (no
\* milestone was assigned, so both come from new_task), and project 1 has
\* one row for user 4.
C9_Witness ==
    /\ resp.op = "new_task" /\ resp.result = "created"
    /\ messages = DemoMessages
    /\ Cardinality({t \in DOMAIN tasks \ DOMAIN DemoTasks :
            tasks[t].project_id = 1 /\ tasks[t].assigned_to = 4}) = 2
    /\ rows_of(project_members, 1, 4) = 1

\* C10: after every step that stores a task with an assignee or gives a
\* stored task another assignee, that user has a project_members row on
\* the task's project.
C10_AssigneeIsOnProjectTeam ==
    [][\A t \in DOMAIN tasks' :
        (/\ t \notin DOMAIN tasks \/ tasks[t].assigned_to # tasks'[t].assigned_to
         /\ tasks'[t].assigned_to # NULL) =>
            rows_of(project_members', tasks'[t].project_id,
                    tasks'[t].assigned_to) > 0]_vars

(***************************************************************************)
(* Properties of the user handlers.                                        *)
(***************************************************************************)
\* C7: after a request of a browser whose user is a manager, by stored
\* role and by cookie, every user who holds role admin held it before
\* the request.
C7_ManagerMakesNoAdmin ==
    [][(/\ resp'.actor \in DOMAIN session
        /\ session[resp'.actor].user_role = "manager"
        /\ stored_role(resp'.actor) = "manager") =>
            \A u \in DOMAIN users' :
                users'[u].role = "admin" =>
                    u \in DOMAIN users /\ users[u].role = "admin"]_vars

\* The record of user id holds what the form asked for.
C8_Applied(row, form) ==
    /\ row.full_name = form.full_name
    /\ row.email = form.email
    /\ row.phone = form.phone
    /\ row.role = form.role
    /\ row.is_active = form.is_active
    /\ form.password # "" => row.password = hash_password(form.password)

C1_CrossTenantRefused ==
    [][LET b == resp'.actor
           id == resp'.target
       IN  (/\ b \in DOMAIN session
            /\ \/ /\ resp'.op \in {"view_project", "edit_project",
                                   "delete_project"}
                  /\ id \in DOMAIN projects
                  /\ projects[id].organization_id
                        # session[b].organization_id
               \/ /\ resp'.op \in {"view_task", "edit_task"}
                  /\ get_task_by_id(id)
                  /\ projects[tasks[id].project_id].organization_id
                        # session[b].organization_id
               \/ /\ resp'.op \in {"documents_download", "documents_delete"}
                  /\ id \in DOMAIN documents
                  /\ documents[id].organization_id
                        # session[b].organization_id
               \/ /\ resp'.op = "view_daily_report"
                  /\ id \in DOMAIN daily_reports
                  /\ daily_reports[id].organization_id
                        # session[b].organization_id) =>
                (Refused(resp') /\ UNCHANGED store)]_vars

(***************************************************************************)
(* Claims about project teams, checked in SpecTeam.                        *)
(***************************************************************************)
\* C11: an update_project whose removal step runs deletes the member-kind
\* rows of the project exactly when the status stored before is not
\* 'completed' and the status stored after is 'completed'; an update from
\* 'completed' to 'completed' leaves every row as it was, and no row of
\* kind manager (and no row of another project) is deleted.
C11_UnassignOnlyOnTransition ==
    [][\A form \in TeamProjectForms :
        edit_project(1, 1, "POST", form) =>
            \A r \in DOMAIN project_members \cup DOMAIN project_members' :
                CopiesIn(r, project_members') =
                    IF /\ projects[1].status # "completed"
                       /\ projects'[1].status = "completed"
                       /\ r.project_id = 1 /\ r.role = "member"
                    THEN 0
                    ELSE CopiesIn(r, project_members)]_vars

\* C11 witness: project 1 was completed, got a member again and was updated
\* from completed to completed (an update that moves the project into
\* 'completed' while a member row stays answers 'failed'); the member row
\* and the manager row are kept.
C11_Witness ==
    /\ resp.op = "edit_project" /\ resp.result = "updated"
    /\ projects[1].status = "completed"
    /\ BagIn(member_row(1, 3, "member"), project_members)
    /\ BagIn(member_row(1, 2, "manager"), project_members)

\* C12: no step moves project 1 into 'completed' while a member-kind row
\* of the project stored before the step is still stored after it.
C12_CompletedWithoutMembers ==
    [][(projects[1].status # "completed" /\ projects'[1].status = "completed")
        => \A r \in DOMAIN project_members :
                (r.project_id = 1 /\ r.role = "member")
                    => ~BagIn(r, project_members')]_vars

\* C13: manage_project_team_members (assign_team_members_to_project) keeps
\* every row of kind manager, with its kind.
C13_ManagerRowKept ==
    [][resp'.op = "manage_project_team_members" =>
        \A r \in DOMAIN project_members :
            r.role = "manager" => BagIn(r, project_members')]_vars

\* C14: when the message to the assigned manager fails, the team handlers
\* still answer with their success, the membership change is stored and no
\* message is written.
C14_MessageFailureSwallowed ==
    [][\A b \in {1, 2, 5} :
        /\ \A member_ids \in TeamLists :
            (/\ manage_project_team_members(b, 1, "POST", member_ids, TRUE)
             /\ admin_only_required(b) = "pass" /\ own_project(b, 1))
            => /\ resp'.result = IF Len(member_ids) > 0 THEN "assigned"
                                 ELSE "cleared"
               /\ \A m \in ids_of(member_ids) \cap DOMAIN users :
                    BagIn(member_row(1, m, "member"), project_members')
               /\ \A m \in DOMAIN users \ ids_of(member_ids) :
                    ~BagIn(member_row(1, m, "member"), project_members')
               /\ messages' = messages
        /\ \A member_id \in {2, 3, 9} :
            (/\ remove_project_team_member(b, 1, member_id, TRUE)
             /\ admin_only_required(b) = "pass" /\ own_project(b, 1)
             /\ BagIn(member_row(1, member_id, "member"), project_members))
            => /\ resp'.result = "removed"
               /\ ~BagIn(member_row(1, member_id, "member"), project_members')
               /\ messages' = messages]_vars

\* C14 witness: the team of project 1 was set to member 3 with success, the
\* project has an assigned manager and no message about it was stored.
C14_Witness ==
    /\ resp.op = "manage_project_team_members" /\ resp.result = "assigned"
    /\ projects[1].assigned_manager_id = 2
    /\ BagIn(member_row(1, 3, "member"), project_members)
    /\ \A m \in messages : m.subject # "Team Members Assigned"

(***************************************************************************)
(* Claims about due-date notifications, checked in SpecNotify.             *)
(***************************************************************************)
\* Task t is one a run for org_id selects: a task of a project of org_id
\* with an assignee and a due date from today to today + 7, not completed.
C_Selected(t, org_id) ==
    /\ tasks[t].project_id \in DOMAIN projects
    /\ projects[tasks[t].project_id].organization_id = org_id
    /\ tasks[t].assigned_to # NULL
    /\ tasks[t].status # "completed"
    /\ tasks[t].due_date # NULL
    /\ CURDATE <= tasks[t].due_date
    /\ tasks[t].due_date <= CURDATE + 7

\* The task_due_soon notifications of table for (task t, user u) created
\* today.
C_Today(table, t, u) ==
    {n \in DOMAIN table :
        /\ table[n].task_id = t /\ table[n].user_id = u
        /\ table[n].type = "task_due_soon" /\ table[n].created_at = CURDATE}

\* C15: after every run that succeeds, each (task, assignee) pair the run
\* selects has exactly one task_due_soon notification created today,
\* however many runs came before.
C15_OnePerPairPerDay ==
    [][(resp'.op = "generate_notifications" /\ resp'.result = "generated") =>
        \A t \in DOMAIN tasks :
            C_Selected(t, session[resp'.actor].organization_id) =>
                Cardinality(C_Today(notifications', t,
                                    tasks[t].assigned_to)) = 1]_vars

\* C15 witness: task 1 was notified today for user 2 and, after it was
\* given to user 4, for user 4 (two runs at least), and task 2, which
\* both runs selected, has one notification of today.
C15_Witness ==
    /\ resp.op = "generate_notifications" /\ resp.result = "generated"
    /\ C_Today(notifications, 1, 2) # {}
    /\ C_Today(notifications, 1, 4) # {}
    /\ C_Selected(2, 1)
    /\ Cardinality(C_Today(notifications, 2, 3)) = 1

\* C16: when the INSERT for task f raises in a run, every other task the
\* run selects that had no notification of today has one after the run.
C16_FailureKeepsOthers ==
    [][\A b \in NotifyBrowsers, f \in {1, 2} :
        LET org_id == session[b].organization_id
        IN  (/\ generate_notifications(b, f)
             /\ admin_required(b) = "pass"
             /\ C_Selected(f, org_id)
             /\ C_Today(notifications, f, tasks[f].assigned_to) = {})
            => \A t \in DOMAIN tasks \ {f} :
                    C_Selected(t, org_id) =>
                        C_Today(notifications', t,
                                tasks[t].assigned_to) # {}]_vars

C18_MemberScope ==
    (/\ resp.op = "projects" /\ resp.result = "ok"
     /\ session[resp.actor].user_role = "member"
     /\ users[session[resp.actor].user_id].role = "member") =>
        \A p \in DOMAIN projects :
            projects[p].organization_id = session[resp.actor].organization_id
            => LET u == session[resp.actor].user_id
                   granted == <<p, u>> \in project_visibility
                   on_team == rows_of(project_members, p, u) > 0
               IN  /\ projects[p].visibility = "all" => p \in resp.listed
                   /\ (projects[p].visibility = "specific" /\ granted)
                            => p \in resp.listed
                   /\ (projects[p].visibility = "specific" /\ ~granted
                            /\ ~on_team) => p \notin resp.listed

(***************************************************************************)
(* Claims about documents, checked in SpecDocuments.                       *)
(***************************************************************************)
\* C19: for an active document attached to a project, a member who did
\* not upload it is allowed to view it exactly when they have a
\* project_members row on that project, and a delete they ask for is
\* denied and changes nothing.
C19_MemberViewsTeamDocuments ==
    [][\A b \in Browsers, doc_id \in DOMAIN ProjectDocuments :
        (/\ login_required(b) /\ session[b].user_role = "member"
         /\ doc_id \in DOMAIN documents
         /\ documents[doc_id].is_active
         /\ documents[doc_id].project_id # NULL
         /\ documents[doc_id].uploaded_by # session[b].user_id) =>
            /\ document_view_permission(b, doc_id) =>
                (resp'.result = "allowed" <=>
                    rows_of(project_members, documents[doc_id].project_id,
                            session[b].user_id) > 0)
            /\ documents_delete(b, doc_id) =>
                (resp'.result = "denied" /\ UNCHANGED store)]_vars

\* C20: an admin who did not submit a daily report of their organization
\* is shown the report exactly when its visible_to_admin flag is set.
C20_AdminSeesIffVisibleToAdmin ==
    (/\ resp.op = "view_daily_report"
     /\ resp.actor \in DOMAIN session
     /\ session[resp.actor].user_role = "admin"
     /\ resp.target \in DOMAIN daily_reports
     /\ daily_reports[resp.target].organization_id
            = session[resp.actor].organization_id
     /\ daily_reports[resp.target].user_id # session[resp.actor].user_id) =>
        (resp.result = "ok" <=> daily_reports[resp.target].visible_to_admin)

(***************************************************************************)
(* Claims about daily reports, checked in SpecReports.                     *)
(***************************************************************************)
\* C21: a manager who did not submit a daily report of their organization
\* is shown the report exactly when visible_to_manager is set, or the
\* manager is the assigned manager of the report's project, or the manager
\* has a project_members row on the report's project.
C21_ManagerSeesReport ==
    (/\ resp.op = "view_daily_report"
     /\ resp.actor \in DOMAIN session
     /\ session[resp.actor].user_role = "manager"
     /\ resp.target \in DOMAIN daily_reports
     /\ daily_reports[resp.target].organization_id
            = session[resp.actor].organization_id
     /\ daily_reports[resp.target].user_id # session[resp.actor].user_id) =>
        LET report == daily_reports[resp.target]
            p == report.project_id
            u == session[resp.actor].user_id
        IN  resp.result = "ok" <=>
                \/ report.visible_to_manager
                \/ /\ p # NULL /\ p \in DOMAIN projects
                   /\ projects[p].assigned_manager_id = u
                \/ p # NULL /\ rows_of(project_members, p, u) > 0

\* Report d, not submitted by user u, is one a member may be shown: it is
\* attached to a project, visible_to_manager is set and u has a
\* project_members row on the project.
C22_Shared(d, u) ==
    /\ daily_reports[d].project_id # NULL
    /\ daily_reports[d].visible_to_manager
    /\ rows_of(project_members, daily_reports[d].project_id, u) > 0

\* C22: a report a member is shown by view_daily_report or in the list of
\* daily reports, and did not submit, is attached to a project, has
\* visible_to_manager set and belongs to a project the member is on.
C22_MemberSeesSharedOnly ==
    (resp.actor \in DOMAIN session
        /\ session[resp.actor].user_role = "member") =>
        LET u == session[resp.actor].user_id
        IN  /\ (/\ resp.op = "view_daily_report" /\ resp.result = "ok"
                /\ daily_reports[resp.target].user_id # u)
                    => C22_Shared(resp.target, u)
            /\ resp.op = "daily_reports" =>
                    \A d \in resp.listed :
                        daily_reports[d].user_id # u => C22_Shared(d, u)

(***************************************************************************)
(* Claims about the assigned manager, checked in SpecManagers.             *)
(***************************************************************************)
\* C23: the assigned manager of every project is nobody or a user of the
\* project's organization.
C23_ManagerInOrganization ==
    \A p \in DOMAIN projects :
        \/ projects[p].assigned_manager_id = NULL
        \/ /\ projects[p].assigned_manager_id \in DOMAIN users
           /\ users[projects[p].assigned_manager_id].organization_id
                = projects[p].organization_id

(***************************************************************************)
(* Claims about the completion date of tasks, checked in SpecTasks.        *)
(***************************************************************************)
\* C24: after every new_task or edit_task request that wrote a task, every
\* task has a completion date if and only if its status is completed.
C24_DateIffCompleted ==
    [][(/\ resp'.op \in {"new_task", "edit_task"}
        /\ resp'.result \in {"created", "updated"})
          => \A t \in DOMAIN tasks' :
                (tasks'[t].completion_date # NULL)
                    <=> (tasks'[t].status = "completed")]_vars

(***************************************************************************)
(* Claims about requests served at the same time, checked in               *)
(* SpecConnections.                                                        *)
(***************************************************************************)
\* The users with a row of kind member on the project.
C25_Members(project_id) ==
    {r.user_id : r \in {x \in DOMAIN project_members :
                            x.project_id = project_id /\ x.role = "member"}}

C25_Range(member_ids) == {member_ids[i] : i \in DOMAIN member_ids}

\* C25: when two calls of assign_team_members_to_project on the same
\* project have both returned, the members of the project are exactly the
\* member_ids of one of the two calls.
C25_Serialized ==
    (/\ \A c \in Connections :
            /\ conn[c].op = "assign_team_members_to_project"
            /\ conn[c].pc = "closed"
     /\ conn[1].project_id = conn[2].project_id)
        => C25_Members(conn[1].project_id)
                \in {C25_Range(conn[1].member_ids),
                     C25_Range(conn[2].member_ids)}

\* C29: in every state project_members holds at most one row per project
\* and user, and a create_task or assign_team_members_to_project call
\* that has got its connection ends with its commit: create_task returns
\* the id of a task that is stored, assign_team_members_to_project
\* returns True.
C29_OneRowPerPair ==
    /\ [](\A p \in DOMAIN projects, u \in DOMAIN users :
            rows_of(project_members, p, u) <= 1)
    /\ [][\A c \in Connections :
            (conn[c].pc # "closed" /\ conn'[c].pc = "closed") =>
                IF conn[c].op = "create_task"
                THEN /\ conn'[c].ret = "task_id"
                     /\ conn[c].task_id \in DOMAIN tasks'
                ELSE conn'[c].ret = "True"]_vars

\* Two create_task calls for user 4 on the same project ran side by side:
\* both found no row, the INSERT of one was refused by the unique key,
\* both committed their task, and the pair has one row.
C29_Witness ==
    /\ \A c \in Connections :
            /\ conn[c].op = "create_task"
            /\ conn[c].pc = "closed"
            /\ conn[c].ret = "task_id"
            /\ conn[c].task_id \in DOMAIN tasks
    /\ conn[1].task_id # conn[2].task_id
    /\ conn[1].data.project_id = conn[2].data.project_id
    /\ \E c \in Connections : 1062 \in conn[c].logged
    /\ rows_of(project_members, conn[1].data.project_id, 4) = 1

(***************************************************************************)
(* Claims about sessions, checked in SpecSessions.                         *)
(***************************************************************************)
\* C26: all_tasks answers a logged-in user by the role stored for the user
\* at the time of the request: it is denied to a member and to nobody
\* else, whatever the role was when the session was opened.
C26_StoredRoleDecides ==
    (resp.op = "all_tasks" /\ resp.result \in {"ok", "denied"})
        => (resp.result = "denied"
                <=> users[session[resp.actor].user_id].role = "member")

\* C27: a login is welcomed and a list of all tasks is rendered only for
\* a user whose active flag is set.
C27_InactiveRefused ==
    /\ (resp.op = "login" /\ resp.result = "welcome")
            => users[resp.target].is_active
    /\ (resp.op = "all_tasks" /\ resp.result = "ok")
            => users[session[resp.actor].user_id].is_active

(***************************************************************************)
(* Claims about the deletion of a project, checked in Spec.                *)
(***************************************************************************)
\* C28: when delete_project deletes a project, a user who is no admin and
\* whom can_user_view_document refused a document of the project before
\* is refused that document after.
C28_DeletionNeverWidens ==
    [][\A d \in DOMAIN documents, u \in DOMAIN users :
        (/\ resp'.op = "delete_project"
         /\ resp'.result = "deleted"
         /\ documents[d].project_id = resp'.target
         /\ users[u].role # "admin"
         /\ ~can_user_view_document(u, users[u].organization_id,
                                    users[u].role, documents[d]))
            => ~(can_user_view_document(u, users[u].organization_id,
                                        users[u].role, documents[d]))']_vars

\* C30: a POST to edit_project answers 'updated' (update_project returned
\* True) exactly when the UPDATE changed the row of the project, and
\* 'failed' only when nothing was committed.
C30_ReportsTheCommit ==
    [][(resp'.op = "edit_project" /\ resp'.result \in {"updated", "failed"})
        => /\ (resp'.result = "updated") <=> (projects' # projects)
           /\ (resp'.result = "failed")
                => (projects' = projects
                        /\ project_members' = project_members)]_vars

=============================================================================
